---- MODULE Spec2Model ----
(***************************************************************************)
(* Verification model of pixybattle:                                       *)
(*   - utils/shooting.py : LaserController / LaserInterface / LaserProcess *)
(*   - utils/vision.py   : GenericBlock, nearly_equal_pairs,               *)
(*                         merge_similar_blocks, Scene                     *)
(* Time is counted in whole seconds; datetime(MINYEAR,1,1) is EPOCH.       *)
(***************************************************************************)
EXTENDS Integers, Sequences, FiniteSets, TLC

\* ------------------------------------------------------------------ bounds
MaxTime == 11       \* the clock stops advancing here
MaxCtor == 2        \* LaserController() constructions (runs of __init__)
MaxLines == 1       \* lines the laser board sends on the serial channel
MaxShots == 2       \* largest `shots` argument of fire_multiple
MaxBlocks == 3      \* blocks handed to one call of a vision function
MaxHits == 2        \* HIT lines sent to a laser that is firing at will
MaxSent == 4        \* commands a LaserCommander sends on its Pipe

\* ------------------------------------------------------- program constants
LASER_COOLDOWN == 1
RECOVERY == 5
EPOCH == 0
EPOCH_TUPLE == <<1, 1, 1, 0, 0, 0, 0>>

None == "None"

\* the robot is switched on long after EPOCH
StartTime == EPOCH + LASER_COOLDOWN + RECOVERY

Workers == 1..MaxCtor

\* lines of the serial channel are sequences of characters
HIT == <<"H", "I", "T">>
Whitespace == {" ", "\n", "\r", "\t"}
Lines == { <<"H", "I", "T", "\n">>, <<"h", "i", "t", "\n">> }
\* timeout=None and timeout=0 are the same to `if timeout`
NoTimeout == 0
Timeouts == {NoTimeout, 1}
\* datetime(MAXYEAR, 1, 1): later than every reading of the clock
MAXYEAR == MaxTime + 1
\* no FIRE written yet
Never == EPOCH - 1
PyTrue == "True"
\* how a block of code ends: normally or with an exception raised in it
Exceptions == {None, "Exception"}
PyFalse == "False"

VARIABLES
    now,          \* datetime.datetime.utcnow()
    instance,     \* LaserController.__instance (class attribute) is not None
    gen,          \* how many times __init__ ran: index of self.interface / self.laser_process
    firing,       \* LaserInterface._firing, per interface
    stood_down,   \* LaserInterface._stood_down, per interface
    last_fired,   \* LaserInterface._last_fired, per interface
    last_hit,     \* LaserInterface._last_hit, per interface
    wpc,          \* position of each LaserProcess
    ser_in,       \* lines waiting on the serial device
    arrived,      \* number of lines the board has sent
    ser_out,      \* per LaserProcess, when it last wrote FIRE to the device (Never: not yet)
    cpc,          \* position of the commander
    call,         \* the public operation the commander is in (None between operations)
    previous_fire,\* fire_once: previous_fire / wait_for_change: initial
    finish,       \* wait_for_change: finish
    result,       \* result of the last fire_once
    results,      \* fire_multiple: results
    shots_left,   \* fire_multiple: iterations still to run
    shots,        \* fire_multiple: shots (0 once another operation is called)
    timeout,      \* fire_once: timeout
    raised,       \* exception raised by the last commander operation
    utc_offset,   \* datetime.now() - datetime.utcnow() on this host
    window,       \* history of the last fire_once call (FIRE writes since it began)
    held,         \* history of hold_fire(): FIRE writes since it returned (see NotHeld)
    scope,        \* where the commander is in `with controller:` ("none": outside)
    scene_1,      \* Scene.blocks of a first scene
    scene_2,      \* Scene.blocks of a second scene
    vop,          \* the vision function that was called (None: not yet)
    vargs,        \* its arguments
    vout,         \* what it returned or raised
    array,        \* the seven slots of a LaserInterface._last_fired / _last_hit Array
    lock,         \* the process that holds the Array's lock (None: free)
    apc,          \* per process, its position in datetime_to_array / array_to_datetime
    timestamp,    \* datetime_to_array: the timestamp the worker is storing
    written,      \* datetime_to_array: how many slots of it are set
    fields,       \* array_to_datetime: per process, the items of *array read so far
    dt,           \* array_to_datetime: per process, the last dt returned (<<>>: none yet)
    stored,       \* history: the timestamps that one datetime_to_array stored in full
                  \* (next to the EPOCH_TUPLE the Array is created with)
    killed,       \* lasertag.py: robot_state.killed
    commander_stood_down, \* bot_logging/shooting.py: LaserCommander.__stood_down
    conn,         \* commands sent on the Pipe and not yet received by the AutoLaser
    laser,        \* position of the AutoLaser process
    laser_firing, \* AutoLaser.firing
    laser_fired,  \* FIRE lines the AutoLaser wrote (counted up to MaxShots)
    sent,         \* how many times LaserCommander called self._conn.send
    ppc,          \* position of the caller of the LaserCommander
    commanded,    \* what the last LaserCommander operation raised (None: it returned)
    stand_downs   \* history: calls of LaserCommander.stand_down (counted up to 2)

lvars == <<now, instance, gen, firing, stood_down, last_fired, last_hit, wpc,
           ser_in, arrived, ser_out, cpc, call, previous_fire, finish,
           result, results, shots_left, shots, timeout, raised, utc_offset, window,
           held, scope>>

vvars == <<scene_1, scene_2, vop, vargs, vout>>

avars == <<array, lock, apc, timestamp, written, fields, dt, stored>>

pvars == <<commander_stood_down, conn, laser, laser_firing, laser_fired, sent, ppc,
           commanded, stand_downs>>

mvars == <<killed, pvars>>

\* LaserCommander.__init__:  self._conn, laser_conn = Pipe()
\*                           self._laser = AutoLaser(laser_conn, False, LASER_TIMEOUT)
\*                           self.__stood_down = False
PipeIdle ==
    /\ commander_stood_down = FALSE
    /\ conn = <<>>
    /\ laser = "initial"
    /\ laser_firing = FALSE
    /\ laser_fired = 0
    /\ sent = 0
    /\ ppc = "idle"
    /\ commanded = None
    /\ stand_downs = 0

vars == <<mvars, lvars, vvars, avars, mvars>>

ctl == <<instance, gen>>
shared == <<firing, stood_down, last_fired, last_hit>>
cmdr == <<cpc, call, previous_fire, finish, result, results, shots_left, shots,
          timeout, raised, utc_offset>>

NoWindow == [open |-> FALSE, firing0 |-> FALSE, blocked0 |-> FALSE,
             shots |-> 0, closed |-> -1]

\* held counts the FIRE commands the controller's worker has written since
\* hold_fire() returned or stand_down() set its flag (at most 2 are counted);
\* it is NotHeld until the first of these calls on this interface and Resumed
\* once the firing flag was raised again;
\* a behaviour that starts with Untracked keeps no such history
NotHeld == -1
Resumed == -2
Untracked == -3

\* the two processes that share an interface
Sides == {"worker", "commander"}

\* no timestamp is being stored or read
ArrayIdle ==
    /\ array = EPOCH_TUPLE
    /\ lock = None
    /\ apc = [p \in Sides |-> "idle"]
    /\ timestamp = <<>>
    /\ written = 0
    /\ fields = [p \in Sides |-> <<>>]
    /\ dt = [p \in Sides |-> <<>>]
    /\ stored = {}

\* ------------------------------------------------------------ LaserInterface
\* is_cooling with the comparison against the cooldown lost
is_cooling_never(i) == now - last_fired[i] < 0

is_cooling(i) == now - last_fired[i] < LASER_COOLDOWN

\* is_disabled measuring the cooldown instead of the recovery
is_disabled_cooldown(i) == now - last_hit[i] < LASER_COOLDOWN

\* a laser that a hit never disables
is_disabled_never(i) == now - last_hit[i] < 0

is_disabled(i) == now - last_hit[i] < RECOVERY

\* strip() in place of rstrip(): leading whitespace goes as well
RECURSIVE rstrip_both(_)
rstrip_both(s) ==
    IF s # <<>> /\ s[Len(s)] \in Whitespace
    THEN rstrip_both(SubSeq(s, 1, Len(s) - 1))
    ELSE IF s # <<>> /\ s[1] \in Whitespace
         THEN rstrip_both(Tail(s))
         ELSE s

RECURSIVE rstrip(_)
rstrip(s) ==
    IF s # <<>> /\ s[Len(s)] \in Whitespace
    THEN rstrip(SubSeq(s, 1, Len(s) - 1))
    ELSE s

LaserInit ==
    /\ now = StartTime
    /\ instance = FALSE
    /\ gen = 0
    /\ firing = [i \in Workers |-> FALSE]
    /\ stood_down = [i \in Workers |-> TRUE]
    /\ last_fired = [i \in Workers |-> EPOCH]
    /\ last_hit = [i \in Workers |-> EPOCH]
    /\ wpc = [i \in Workers |-> "initial"]
    /\ ser_in = <<>>
    /\ arrived = 0
    /\ ser_out = [i \in Workers |-> Never]
    /\ cpc = "idle"
    /\ call = None
    /\ previous_fire = EPOCH
    /\ finish = MAXYEAR
    /\ result = None
    /\ results = <<>>
    /\ shots_left = 0
    /\ shots = 0
    /\ timeout = NoTimeout
    /\ raised = None
    /\ utc_offset = 0
    /\ window = NoWindow
    /\ held = NotHeld
    /\ scope = "none"
    /\ ArrayIdle
    /\ killed = FALSE
    /\ PipeIdle

\* no vision function has been called
VisionIdle ==
    /\ scene_1 = {}
    /\ scene_2 = {}
    /\ vop = None
    /\ vargs = <<>>
    /\ vout = None

Init == LaserInit /\ VisionIdle

\* ------------------------------------------------------------- environment
Tick ==
    /\ now < MaxTime
    /\ now' = now + 1
    /\ UNCHANGED <<mvars, avars, vvars, scope, held, instance, gen, firing, stood_down, last_fired, last_hit, wpc,
                   ser_in, arrived, ser_out, cmdr, window>>

LineArrives ==
    /\ arrived < MaxLines
    /\ \E l \in Lines : ser_in' = Append(ser_in, l)
    /\ arrived' = arrived + 1
    /\ UNCHANGED <<mvars, avars, vvars, scope, held, now, instance, gen, firing, stood_down, last_fired, last_hit,
                   wpc, ser_out, cmdr, window>>

\* --------------------------------------------------------------- LaserProcess
\* PixySerial.get() that lets the error of serial.Serial end the process
PixySerial_get_raises(w) ==
    /\ wpc[w] = "setup"
    /\ wpc' = [wpc EXCEPT ![w] = "exited"]
    /\ UNCHANGED <<mvars, avars, vvars, scope, held, now, ctl, shared, ser_in, arrived, ser_out, cmdr, window>>

\* PixySerial.get(): serial.Serial(...) raised: except: logger.warning(...);
\* time.sleep(10)
PixySerial_get_retry(w) ==
    /\ wpc[w] = "setup"
    /\ wpc' = [wpc EXCEPT ![w] = "retry"]
    /\ UNCHANGED <<mvars, avars, vvars, scope, held, now, ctl, shared, ser_in, arrived, ser_out, cmdr, window>>

\* PixySerial.get(): the sleep is over: while cls._serial is None: try again
PixySerial_get_again(w) ==
    /\ wpc[w] = "retry"
    /\ wpc' = [wpc EXCEPT ![w] = "setup"]
    /\ UNCHANGED <<mvars, avars, vvars, scope, held, now, ctl, shared, ser_in, arrived, ser_out, cmdr, window>>

\* run(): self._setup_serial() opens the device and brings the interface online
setup_serial(w) ==
    /\ wpc[w] = "setup"
    /\ stood_down' = [stood_down EXCEPT ![w] = FALSE]
    /\ wpc' = [wpc EXCEPT ![w] = "loop"]
    /\ UNCHANGED <<mvars, avars, vvars, scope, held, now, ctl, firing, last_fired, last_hit, ser_in, arrived,
                   ser_out, cmdr, window>>

\* a worker that does not look at stood_down
run_loop_forever(w) ==
    /\ wpc[w] = "loop"
    /\ wpc' = [wpc EXCEPT ![w] = "firing"]
    /\ UNCHANGED <<mvars, avars, vvars, scope, held, now, ctl, shared, ser_in, arrived, ser_out, cmdr, window>>

\* a worker that leaves its loop only once it is stood down and not firing
run_loop_unless_firing(w) ==
    /\ wpc[w] = "loop"
    /\ wpc' = [wpc EXCEPT ![w] = IF stood_down[w] /\ ~firing[w] THEN "exited" ELSE "firing"]
    /\ UNCHANGED <<mvars, avars, vvars, scope, held, now, ctl, shared, ser_in, arrived, ser_out, cmdr, window>>

\* while not self.interface.stood_down
run_loop(w) ==
    /\ wpc[w] = "loop"
    /\ wpc' = [wpc EXCEPT ![w] = IF stood_down[w] THEN "exited" ELSE "firing"]
    /\ UNCHANGED <<mvars, avars, vvars, scope, held, now, ctl, shared, ser_in, arrived, ser_out, cmdr, window>>

\* a worker that never finds the flag set
run_firing_never(w) ==
    /\ wpc[w] = "firing"
    /\ wpc' = [wpc EXCEPT ![w] = "loop"]
    /\ UNCHANGED <<mvars, avars, vvars, scope, held, now, ctl, shared, ser_in, arrived, ser_out, cmdr, window>>

\* if self.interface.firing and ...   (else time.sleep and loop)
run_firing(w) ==
    /\ wpc[w] = "firing"
    /\ wpc' = [wpc EXCEPT ![w] = IF firing[w] THEN "cooling" ELSE "loop"]
    /\ UNCHANGED <<mvars, avars, vvars, scope, held, now, ctl, shared, ser_in, arrived, ser_out, cmdr, window>>

\* ... and not self.interface.is_cooling and not self._check_hit()
\* _check_hit(): if self.interface.is_disabled: return True
\* (last_fired and last_hit are written by this process alone, so the two
\* readings of the clock are as good as one)
run_cooling(w) ==
    /\ wpc[w] = "cooling"
    /\ wpc' = [wpc EXCEPT ![w] =
                  IF is_cooling(w) \/ is_disabled(w) THEN "loop" ELSE "in_waiting"]
    /\ UNCHANGED <<mvars, avars, vvars, scope, held, now, ctl, shared, ser_in, arrived, ser_out, cmdr, window>>

\* _check_hit(): if self.ser.in_waiting and self.ser.readline().rstrip() == 'HIT'
check_hit_readline(w) ==
    /\ wpc[w] = "in_waiting"
    /\ IF ser_in # <<>>
       THEN /\ ser_in' = Tail(ser_in)
            /\ wpc' = [wpc EXCEPT ![w] =
                          IF rstrip(Head(ser_in)) = HIT THEN "hit" ELSE "fire"]
       ELSE /\ ser_in' = ser_in
            /\ wpc' = [wpc EXCEPT ![w] = "fire"]
    /\ UNCHANGED <<mvars, avars, vvars, scope, held, now, ctl, shared, arrived, ser_out, cmdr, window>>

\* a worker that takes the flag down when it is hit
check_hit_record_holds(w) ==
    /\ wpc[w] = "hit"
    /\ last_hit' = [last_hit EXCEPT ![w] = now]
    /\ firing' = [firing EXCEPT ![w] = FALSE]
    /\ wpc' = [wpc EXCEPT ![w] = "loop"]
    /\ UNCHANGED <<mvars, avars, vvars, scope, held, now, ctl, stood_down, last_fired, ser_in, arrived,
                   ser_out, cmdr, window>>

\* _check_hit(): self.interface.last_hit = datetime.datetime.utcnow(); return True
check_hit_record(w) ==
    /\ wpc[w] = "hit"
    /\ last_hit' = [last_hit EXCEPT ![w] = now]
    /\ wpc' = [wpc EXCEPT ![w] = "loop"]
    /\ UNCHANGED <<mvars, avars, vvars, scope, held, now, ctl, firing, stood_down, last_fired, ser_in, arrived,
                   ser_out, cmdr, window>>

\* _fire(): self.ser.write("FIRE\n")
fire_write(w) ==
    /\ wpc[w] = "fire"
    /\ ser_out' = [ser_out EXCEPT ![w] = now]
    /\ window' = IF window.open /\ w = gen
                 THEN [window EXCEPT !.shots = IF @ < 2 THEN @ + 1 ELSE @]
                 ELSE window
    /\ wpc' = [wpc EXCEPT ![w] = "fired"]
    /\ held' = IF w = gen /\ held \in 0..1 THEN held + 1 ELSE held
    /\ UNCHANGED <<mvars, avars, vvars, scope, now, ctl, shared, ser_in, arrived, cmdr>>

\* _fire(): self.interface.last_fired = datetime.datetime.utcnow()
\* a worker that records the time since its last shot, not the time of this one
fire_record_elapsed(w) ==
    /\ wpc[w] = "fired"
    /\ last_fired' = [last_fired EXCEPT ![w] = now - last_fired[w]]
    /\ wpc' = [wpc EXCEPT ![w] = "loop"]
    /\ UNCHANGED <<mvars, avars, vvars, scope, held, now, ctl, firing, stood_down, last_hit, ser_in, arrived,
                   ser_out, cmdr, window>>

fire_record(w) ==
    /\ wpc[w] = "fired"
    /\ last_fired' = [last_fired EXCEPT ![w] = now]
    /\ wpc' = [wpc EXCEPT ![w] = "loop"]
    /\ UNCHANGED <<mvars, avars, vvars, scope, held, now, ctl, firing, stood_down, last_hit, ser_in, arrived,
                   ser_out, cmdr, window>>

LaserProcess(w) ==
    \/ setup_serial(w)
    \/ run_loop(w)
    \/ run_firing(w)
    \/ run_cooling(w)
    \/ check_hit_readline(w)
    \/ check_hit_record(w)
    \/ fire_write(w)
    \/ fire_record(w)

is_alive(w) == wpc[w] \notin {"initial", "exited"}

\* ------------------------------------------------------------ LaserController
\* the commander's next request ends the window of the previous fire_once:
\* the FIRE commands of a call made with firing false that returned True
Closed ==
    IF window.open /\ ~window.firing0 /\ result = PyTrue THEN window.shots ELSE -1

CloseWindow == window' = [NoWindow EXCEPT !.closed = Closed]

\* fire_once is called: the window of this call begins
OpenWindow(firing_now) ==
    window' = [open |-> TRUE, firing0 |-> firing_now,
               blocked0 |-> is_cooling(gen) \/ is_disabled(gen),
               shots |-> 0, closed |-> Closed]

\* a public operation is entered: what the previous one returned or raised is gone
Enter ==
    /\ cpc = "idle"
    /\ result' = None
    /\ results' = <<>>
    /\ raised' = None
    /\ shots' = 0

\* a public operation returns: its local variables are gone
Return ==
    /\ cpc' = "idle"
    /\ call' = None
    /\ previous_fire' = EPOCH
    /\ finish' = MAXYEAR
    /\ timeout' = NoTimeout
    /\ shots_left' = 0

\* LaserController(): __new__ returns the class-level instance, creating it
\* when there is none, and __init__ then runs on it: a new LaserInterface and
\* a new LaserProcess replace the ones the object had.
construct ==
    /\ Enter
    /\ gen < MaxCtor
    /\ instance' = TRUE
    /\ gen' = gen + 1
    /\ Return
    /\ CloseWindow
    /\ held' = IF held = Untracked THEN Untracked ELSE NotHeld
    /\ UNCHANGED <<mvars, avars, vvars, scope, now, utc_offset, shared, wpc, ser_in, arrived, ser_out>>

\* start(): self.laser_process.start()  (Process.start asserts it is the first)
start ==
    /\ Enter
    /\ call' = "start"
    /\ gen > 0
    /\ wpc[gen] = "initial"
    /\ wpc' = [wpc EXCEPT ![gen] = "setup"]
    /\ cpc' = "start_wait"
    /\ CloseWindow
    /\ UNCHANGED <<mvars, avars, vvars, scope, held, now, utc_offset, ctl, shared, ser_in, arrived, ser_out, previous_fire,
                   finish, shots_left, timeout>>

\* start() that returns without waiting for the worker
start_wait_immediate ==
    /\ cpc = "start_wait"
    /\ Return
    /\ scope' = IF scope = "enter" THEN "body" ELSE scope
    /\ UNCHANGED <<mvars, avars, vvars, held, now, utc_offset, shots, ctl, shared, wpc, ser_in, arrived, ser_out, result,
                   results, raised, window>>

\* start(): while self.interface.stood_down: time.sleep(POLL_INTERVAL)
start_wait ==
    /\ cpc = "start_wait"
    /\ ~stood_down[gen]
    /\ Return
    /\ scope' = IF scope = "enter" THEN "body" ELSE scope
    /\ UNCHANGED <<mvars, avars, vvars, held, now, utc_offset, shots, ctl, shared, wpc, ser_in, arrived, ser_out, result,
                   results, raised, window>>

\* fire_once(timeout), called by the user
fire_once(t) ==
    /\ Enter
    /\ call' = "fire_once"
    /\ gen > 0
    /\ cpc' = "fo_previous"
    /\ timeout' = t
    /\ OpenWindow(firing[gen])
    /\ UNCHANGED <<mvars, avars, vvars, scope, held, now, utc_offset, ctl, shared, wpc, ser_in, arrived, ser_out, previous_fire,
                   finish, shots_left>>

\* fire_multiple(shots, timeout_per_shot): results = []; for _ in range(shots)
fire_multiple(n, t) ==
    /\ cpc = "idle"
    /\ result' = None
    /\ results' = <<>>
    /\ raised' = None
    /\ shots' = n
    /\ gen > 0
    /\ IF n > 0
       THEN /\ cpc' = "fo_previous"
            /\ call' = "fire_multiple"
            /\ timeout' = t
            /\ shots_left' = n
            /\ OpenWindow(firing[gen])
            /\ UNCHANGED <<previous_fire, finish>>
       ELSE Return /\ CloseWindow
    /\ UNCHANGED <<mvars, avars, vvars, scope, held, now, utc_offset, ctl, shared, wpc, ser_in, arrived, ser_out>>

\* fire_at_will(block=True, timeout): result = self.fire_once(timeout)
fire_at_will_block(t) ==
    /\ Enter
    /\ call' = "fire_at_will"
    /\ gen > 0
    /\ cpc' = "fo_previous"
    /\ timeout' = t
    /\ OpenWindow(firing[gen])
    /\ UNCHANGED <<mvars, avars, vvars, scope, held, now, utc_offset, ctl, shared, wpc, ser_in, arrived, ser_out, previous_fire,
                   finish, shots_left>>

\* fire_once: previous_fire = self.interface.last_fired
fire_once_previous ==
    /\ cpc = "fo_previous"
    /\ previous_fire' = last_fired[gen]
    /\ cpc' = "fo_firing"
    /\ UNCHANGED <<mvars, avars, vvars, scope, held, now, utc_offset, shots, ctl, shared, wpc, ser_in, arrived, ser_out, call,
                   finish, result, results, shots_left, timeout, raised, window>>

\* fire_once that starts to wait without raising the flag
fire_once_firing_unset ==
    /\ cpc = "fo_firing"
    /\ finish' = IF timeout # NoTimeout
                 THEN (now + utc_offset) + timeout
                 ELSE MAXYEAR
    /\ cpc' = "wait_for_change"
    /\ UNCHANGED <<mvars, avars, vvars, scope, held, now, utc_offset, shots, ctl, shared, wpc, ser_in,
                   arrived, ser_out, call, previous_fire, result,
                   results, shots_left, timeout, raised, window>>

\* fire_once: self.interface.firing = True
\* wait_for_change: started = datetime.datetime.now()   (the host's local time)
\* finish = started + timedelta(seconds=timeout) if timeout else datetime(MAXYEAR, 1, 1)
fire_once_firing ==
    /\ cpc = "fo_firing"
    /\ firing' = [firing EXCEPT ![gen] = TRUE]
    /\ finish' = IF timeout # NoTimeout
                 THEN (now + utc_offset) + timeout
                 ELSE MAXYEAR
    /\ cpc' = "wait_for_change"
    /\ held' = IF held \in {NotHeld, Untracked} THEN held ELSE Resumed
    /\ UNCHANGED <<mvars, avars, vvars, scope, now, utc_offset, shots, ctl, stood_down, last_fired, last_hit, wpc, ser_in,
                   arrived, ser_out, call, previous_fire, result,
                   results, shots_left, timeout, raised, window>>

\* wait_for_change that reports success when the time is up
wait_for_change_elapsed ==
    /\ cpc = "wait_for_change"
    /\ LET value == last_fired[gen] IN
       IF value # previous_fire \/ now > finish
       THEN result' = PyTrue /\ cpc' = "fo_hold"
       ELSE result' = result /\ cpc' = cpc
    /\ UNCHANGED <<mvars, avars, vvars, scope, held, now, utc_offset, shots, ctl, shared, wpc, ser_in, arrived, ser_out, call,
                   previous_fire, finish, results, shots_left, timeout,
                   raised, window>>

\* wait_for_change: value = getattr(self, attribute)
\* while value == initial: if utcnow() > finish: return False
\*     time.sleep(POLL_INTERVAL); value = getattr(self, attribute)
\* return True
wait_for_change ==
    /\ cpc = "wait_for_change"
    /\ LET value == last_fired[gen] IN
       IF value # previous_fire
       THEN result' = PyTrue /\ cpc' = "fo_hold"
       ELSE IF now > finish
            THEN result' = PyFalse /\ cpc' = "fo_hold"
            ELSE result' = result /\ cpc' = cpc
    /\ UNCHANGED <<mvars, avars, vvars, scope, held, now, utc_offset, shots, ctl, shared, wpc, ser_in, arrived, ser_out, call,
                   previous_fire, finish, results, shots_left, timeout,
                   raised, window>>

\* a fire_multiple that gives up at the first shot that timed out
fire_once_hold_stops ==
    /\ cpc = "fo_hold"
    /\ firing' = [firing EXCEPT ![gen] = FALSE]
    /\ IF call = "fire_multiple"
       THEN /\ results' = Append(results, result)
            /\ IF shots_left > 1 /\ result = PyTrue
               THEN /\ shots_left' = shots_left - 1
                    /\ cpc' = "fo_previous"
                    /\ previous_fire' = EPOCH
                    /\ finish' = MAXYEAR
                    /\ OpenWindow(FALSE)
                    /\ UNCHANGED <<call, timeout>>
               ELSE Return /\ UNCHANGED window
       ELSE /\ results' = results
            /\ UNCHANGED window
            /\ IF call = "fire_at_will"
               THEN /\ cpc' = "faw_firing"
                    /\ previous_fire' = EPOCH
                    /\ finish' = MAXYEAR
                    /\ UNCHANGED <<call, timeout, shots_left>>
               ELSE Return
    /\ UNCHANGED <<mvars, avars, vvars, scope, held, now, utc_offset, shots, ctl, stood_down, last_fired, last_hit, wpc, ser_in,
                   arrived, ser_out, result, raised>>

\* fire_once: self.interface.firing = False; return result
\* and the caller's next statement: fire_multiple appends the result and loops,
\* fire_at_will goes on to set firing
fire_once_hold ==
    /\ cpc = "fo_hold"
    /\ firing' = [firing EXCEPT ![gen] = FALSE]
    /\ IF call = "fire_multiple"
       THEN /\ results' = Append(results, result)
            /\ IF shots_left > 1
               THEN /\ shots_left' = shots_left - 1
                    /\ cpc' = "fo_previous"
                    /\ previous_fire' = EPOCH
                    /\ finish' = MAXYEAR
                    /\ OpenWindow(FALSE)
                    /\ UNCHANGED <<call, timeout>>
               ELSE Return /\ UNCHANGED window
       ELSE /\ results' = results
            /\ UNCHANGED window
            /\ IF call = "fire_at_will"
               THEN /\ cpc' = "faw_firing"
                    /\ previous_fire' = EPOCH
                    /\ finish' = MAXYEAR
                    /\ UNCHANGED <<call, timeout, shots_left>>
               ELSE Return
    /\ UNCHANGED <<mvars, avars, vvars, scope, held, now, utc_offset, shots, ctl, stood_down, last_fired, last_hit, wpc, ser_in,
                   arrived, ser_out, result, raised>>

\* fire_at_will(block=True) that goes to continuous fire only after a shot
fire_at_will_firing_if_fired ==
    /\ cpc = "faw_firing"
    /\ firing' = [firing EXCEPT ![gen] = (result = PyTrue)]
    /\ Return
    /\ CloseWindow
    /\ held' = IF held \in {NotHeld, Untracked} THEN held ELSE Resumed
    /\ UNCHANGED <<mvars, avars, vvars, scope, now, utc_offset, shots, ctl, stood_down, last_fired, last_hit, wpc, ser_in,
                   arrived, ser_out, result, results, raised>>

\* fire_at_will(block=True): self.interface.firing = True; return result
fire_at_will_firing ==
    /\ cpc = "faw_firing"
    /\ firing' = [firing EXCEPT ![gen] = TRUE]
    /\ Return
    /\ CloseWindow
    /\ held' = IF held \in {NotHeld, Untracked} THEN held ELSE Resumed
    /\ UNCHANGED <<mvars, avars, vvars, scope, now, utc_offset, shots, ctl, stood_down, last_fired, last_hit, wpc, ser_in,
                   arrived, ser_out, result, results, raised>>

\* fire_at_will(block=False): self.interface.firing = True; return None
fire_at_will ==
    /\ Enter
    /\ gen > 0
    /\ firing' = [firing EXCEPT ![gen] = TRUE]
    /\ Return
    /\ CloseWindow
    /\ held' = IF held \in {NotHeld, Untracked} THEN held ELSE Resumed
    /\ UNCHANGED <<mvars, avars, vvars, scope, now, utc_offset, ctl, stood_down, last_fired, last_hit, wpc, ser_in,
                   arrived, ser_out>>

\* hold_fire that leaves the flag as it is
hold_fire_forgets ==
    /\ Enter
    /\ gen > 0
    /\ firing' = firing
    /\ Return
    /\ CloseWindow
    /\ held' = IF held = Untracked THEN Untracked ELSE 0
    /\ UNCHANGED <<mvars, avars, vvars, scope, now, utc_offset, ctl, stood_down, last_fired, last_hit, wpc, ser_in,
                   arrived, ser_out>>

\* hold_fire(): self.interface.firing = False
hold_fire ==
    /\ Enter
    /\ gen > 0
    /\ firing' = [firing EXCEPT ![gen] = FALSE]
    /\ Return
    /\ CloseWindow
    /\ held' = IF held = Untracked THEN Untracked ELSE 0
    /\ UNCHANGED <<mvars, avars, vvars, scope, now, utc_offset, ctl, stood_down, last_fired, last_hit, wpc, ser_in,
                   arrived, ser_out>>

\* stand_down(): self.interface.stood_down = True
stand_down ==
    /\ Enter
    /\ call' = "stand_down"
    /\ gen > 0
    /\ stood_down' = [stood_down EXCEPT ![gen] = TRUE]
    /\ cpc' = "join"
    /\ CloseWindow
    /\ held' = IF held = Untracked THEN Untracked ELSE 0
    /\ UNCHANGED <<mvars, avars, vvars, scope, now, utc_offset, ctl, firing, last_fired, last_hit, wpc, ser_in, arrived,
                   ser_out, previous_fire, finish, shots_left, timeout>>

\* stand_down(): self.laser_process.join()  (Process.join asserts that the
\* process was started); self.__instance = None then sets an attribute of the
\* object and leaves the class attribute that __new__ reads as it was
stand_down_join ==
    /\ cpc = "join"
    /\ \/ wpc[gen] = "initial" /\ raised' = "AssertionError"
       \/ wpc[gen] = "exited" /\ raised' = raised
    /\ Return
    /\ scope' = IF scope = "exit" THEN "none" ELSE scope
    /\ UNCHANGED <<mvars, avars, vvars, held, now, utc_offset, shots, ctl, shared, wpc, ser_in, arrived, ser_out, result,
                   results, window>>

\* __enter__: self.start(); return self
with_enter ==
    /\ Enter
    /\ scope = "none"
    /\ call' = "__enter__"
    /\ gen > 0
    /\ wpc[gen] = "initial"
    /\ wpc' = [wpc EXCEPT ![gen] = "setup"]
    /\ cpc' = "start_wait"
    /\ scope' = "enter"
    /\ CloseWindow
    /\ UNCHANGED <<mvars, avars, vvars, held, now, utc_offset, ctl, shared, ser_in, arrived, ser_out,
                   previous_fire, finish, shots_left, timeout>>

\* __exit__ that stands down only when the block ended without an error
with_exit_unless_error(exc) ==
    /\ cpc = "idle"
    /\ scope = "body"
    /\ raised' = exc
    /\ IF exc = None
       THEN /\ call' = "__exit__"
            /\ stood_down' = [stood_down EXCEPT ![gen] = TRUE]
            /\ cpc' = "join"
            /\ scope' = "exit"
       ELSE /\ scope' = "none"
            /\ UNCHANGED <<call, stood_down, cpc>>
    /\ CloseWindow
    /\ UNCHANGED <<mvars, avars, vvars, held, now, utc_offset, shots, ctl, firing, last_fired, last_hit, wpc, ser_in,
                   arrived, ser_out, previous_fire, finish, shots_left, timeout,
                   result, results>>

\* the block of the with statement is left, normally (exc is None) or by an
\* exception:  __exit__(exc_type, exc_val, exc_tb): self.stand_down()
\* stand_down(): self.interface.stood_down = True
with_exit(exc) ==
    /\ cpc = "idle"
    /\ scope = "body"
    /\ raised' = exc
    /\ call' = "__exit__"
    /\ stood_down' = [stood_down EXCEPT ![gen] = TRUE]
    /\ cpc' = "join"
    /\ scope' = "exit"
    /\ CloseWindow
    /\ UNCHANGED <<mvars, avars, vvars, held, now, utc_offset, shots, ctl, firing, last_fired, last_hit, wpc, ser_in,
                   arrived, ser_out, previous_fire, finish, shots_left, timeout,
                   result, results>>

\* every operation of the commander
Commander ==
    \/ construct
    \/ start
    \/ start_wait
    \/ \E t \in Timeouts : fire_once(t)
    \/ \E n \in 0..MaxShots, t \in Timeouts : fire_multiple(n, t)
    \/ \E t \in Timeouts : fire_at_will_block(t)
    \/ fire_once_previous
    \/ fire_once_firing
    \/ wait_for_change
    \/ fire_once_hold
    \/ fire_at_will_firing
    \/ fire_at_will
    \/ hold_fire
    \/ stand_down
    \/ stand_down_join
    \/ with_enter
    \/ \E exc \in Exceptions : with_exit(exc)

Next == Tick \/ LineArrives \/ Commander \/ \E w \in Workers : LaserProcess(w)

Spec == Init /\ [][Next]_vars

\* ------------------------------------------------- the controller's life cycle
\* constructions, start and stand_down around a laser left to fire at will,
\* all within one second
NextLifecycle ==
    \/ LineArrives
    \/ construct
    \/ start
    \/ start_wait
    \/ fire_at_will
    \/ hold_fire
    \/ stand_down
    \/ stand_down_join
    \/ \E w \in Workers : LaserProcess(w)

SpecLifecycle == Init /\ [][NextLifecycle]_vars

\* ---------------------------------------------------------- one controller
\* controller = LaserController() has returned
\* offset: the host's local time minus UTC
ConstructedIn(offset) ==
    /\ now = StartTime
    /\ instance = TRUE
    /\ gen = 1
    /\ firing = [i \in Workers |-> FALSE]
    /\ stood_down = [i \in Workers |-> TRUE]
    /\ last_fired = [i \in Workers |-> EPOCH]
    /\ last_hit = [i \in Workers |-> EPOCH]
    /\ wpc = [i \in Workers |-> "initial"]
    /\ ser_in = <<>>
    /\ arrived = 0
    /\ ser_out = [i \in Workers |-> Never]
    /\ cpc = "idle"
    /\ call = None
    /\ previous_fire = EPOCH
    /\ finish = MAXYEAR
    /\ result = None
    /\ results = <<>>
    /\ shots_left = 0
    /\ shots = 0
    /\ timeout = NoTimeout
    /\ raised = None
    /\ utc_offset = offset
    /\ window = NoWindow
    /\ scope = "none"
    /\ ArrayIdle
    /\ killed = FALSE
    /\ PipeIdle
    /\ VisionIdle

Constructed == ConstructedIn(0)

InitConstructed == Constructed /\ held = Untracked

\* the same, with the history of hold_fire() kept
InitHeld == Constructed /\ held = NotHeld

\* every way of firing, each shot waited for without a timeout
NextFiring ==
    \/ Tick
    \/ LineArrives
    \/ start
    \/ start_wait
    \/ fire_once(NoTimeout)
    \/ \E n \in 0..MaxShots : fire_multiple(n, NoTimeout)
    \/ fire_at_will_block(NoTimeout)
    \/ fire_once_previous
    \/ fire_once_firing
    \/ wait_for_change
    \/ fire_once_hold
    \/ fire_at_will_firing
    \/ fire_at_will
    \/ hold_fire
    \/ stand_down
    \/ stand_down_join
    \/ \E w \in Workers : LaserProcess(w)

SpecFiring == InitConstructed /\ [][NextFiring]_vars

\* ------------------------------------------------- blocking shots, one by one
\* start(), then fire_at_will(), hold_fire() and fire_once() in any order on a
\* worker that is never stood down; the clock advances, the worker and the
\* commander's poll loops keep being scheduled
NextDeferred ==
    \/ Tick
    \/ LineArrives
    \/ start
    \/ start_wait
    \/ fire_at_will
    \/ hold_fire
    \/ fire_once(NoTimeout)
    \/ fire_once_previous
    \/ fire_once_firing
    \/ wait_for_change
    \/ fire_once_hold
    \/ \E w \in Workers : LaserProcess(w)

FairDeferred ==
    /\ WF_vars(Tick)
    /\ WF_vars(start_wait \/ fire_once_previous \/ fire_once_firing
                   \/ wait_for_change \/ fire_once_hold)
    /\ \A w \in Workers : WF_vars(LaserProcess(w))

SpecDeferred == InitConstructed /\ [][NextDeferred]_vars /\ FairDeferred

\* ------------------------------------------------ writers of the shared fields
\* every operation that assigns a field of the interface, on every controller
\* that is constructed: the clock does not matter to who writes what
NextWriters ==
    \/ LineArrives
    \/ construct
    \/ start
    \/ start_wait
    \/ fire_once(NoTimeout)
    \/ fire_once_previous
    \/ fire_once_firing
    \/ wait_for_change
    \/ fire_once_hold
    \/ fire_at_will
    \/ hold_fire
    \/ stand_down
    \/ stand_down_join
    \/ \E w \in Workers : LaserProcess(w)

SpecWriters == InitConstructed /\ [][NextWriters]_vars

\* ------------------------------------------------------------ fire_multiple
\* fire_multiple with and without a timeout per shot, on a laser that is
\* not hit
\* lines the board has sent before the worker is started
LineArrivesEarly == cpc = "idle" /\ wpc[gen] = "initial" /\ LineArrives

NextMultiple ==
    \/ Tick
    \/ LineArrivesEarly
    \/ start
    \/ start_wait
    \/ \E n \in 0..MaxShots, t \in Timeouts : fire_multiple(n, t)
    \/ fire_once_previous
    \/ fire_once_firing
    \/ wait_for_change
    \/ fire_once_hold
    \/ \E w \in Workers : LaserProcess(w)

SpecMultiple == InitConstructed /\ [][NextMultiple]_vars

\* ------------------------------------------------------------- holding fire
\* a laser left to fire at will and held again, any number of times
NextHold ==
    \/ Tick
    \/ LineArrives
    \/ start
    \/ start_wait
    \/ fire_at_will
    \/ hold_fire
    \/ \E w \in Workers : LaserProcess(w)

\* the clock advances, the wait loop of start() and the worker loop run again
FairHold ==
    /\ WF_vars(Tick)
    /\ WF_vars(start_wait)
    /\ \A w \in Workers : WF_vars(LaserProcess(w))

SpecHold == InitHeld /\ [][NextHold]_vars /\ FairHold

\* ------------------------------------------------------ standing the worker down
\* start(), fire_at_will(), hold_fire() and stand_down() in any order; the
\* worker loop and the commander's wait in start() keep being scheduled, and
\* join() returns once the process has ended
NextStandDown ==
    \/ Tick
    \/ LineArrives
    \/ start
    \/ start_wait
    \/ fire_at_will
    \/ hold_fire
    \/ stand_down
    \/ stand_down_join
    \/ \E w \in Workers : LaserProcess(w)

FairStandDown ==
    /\ WF_vars(start_wait \/ stand_down_join)
    /\ \A w \in Workers : WF_vars(LaserProcess(w))

SpecStandDown == InitConstructed /\ [][NextStandDown]_vars /\ FairStandDown

\* the same, with the FIRE commands written since stand_down() counted
SpecStoodDown == InitHeld /\ [][NextStandDown]_vars /\ FairStandDown

\* ------------------------------------------- a serial device that fails to open
\* start(), fire_at_will(), hold_fire() and stand_down() around a worker whose
\* serial.Serial(...) may raise any number of times before it succeeds
NextSerial ==
    \/ Tick
    \/ LineArrives
    \/ start
    \/ start_wait
    \/ fire_at_will
    \/ hold_fire
    \/ stand_down
    \/ stand_down_join
    \/ \E w \in Workers : PixySerial_get_retry(w)
    \/ \E w \in Workers : PixySerial_get_again(w)
    \/ \E w \in Workers : LaserProcess(w)

SpecSerial == InitConstructed /\ [][NextSerial]_vars

\* Lines of every kind: HIT with other trailing whitespace, in lower case,
\* after a leading blank, followed by more letters, cut short, and empty
SerialLines ==
    Lines \cup { <<"H", "I", "T", " ", "\r", "\n">>,
                 <<" ", "H", "I", "T", "\n">>,
                 <<"H", "I", "T", "S", "\n">>,
                 <<"H", "I", "\n">>,
                 <<"\n">> }

LineArrivesAny ==
    /\ arrived < MaxLines
    /\ \E l \in SerialLines : ser_in' = Append(ser_in, l)
    /\ arrived' = arrived + 1
    /\ UNCHANGED <<mvars, avars, vvars, scope, held, now, instance, gen, firing, stood_down, last_fired, last_hit,
                   wpc, ser_out, cmdr, window>>

NextLines ==
    \/ Tick
    \/ LineArrivesAny
    \/ start
    \/ start_wait
    \/ fire_at_will
    \/ \E w \in Workers : LaserProcess(w)

SpecLines == InitConstructed /\ [][NextLines]_vars

\* A laser firing at will that is hit several times
HitArrives ==
    /\ arrived < MaxHits
    /\ ser_in' = Append(ser_in, HIT \o <<"\n">>)
    /\ arrived' = arrived + 1
    /\ UNCHANGED <<mvars, avars, vvars, scope, held, now, instance, gen, firing, stood_down, last_fired, last_hit,
                   wpc, ser_out, cmdr, window>>

NextRecovery ==
    \/ Tick
    \/ HitArrives
    \/ start
    \/ start_wait
    \/ fire_at_will
    \/ \E w \in Workers : LaserProcess(w)

SpecRecovery == InitConstructed /\ [][NextRecovery]_vars

\* ------------------------------------------------------- the with statement
\* with controller: fire_at_will() and hold_fire() in any order, until the
\* block ends or raises
\* lasertag.py, loop(): if ser.in_waiting: code = ser.readline().rstrip();
\* robot_state.killed = True -- on the module's own serial.Serial of the
\* device that PixySerial opens for the worker; main() calls it inside
\* `with LaserController() as controller:`
loop ==
    /\ scope = "body"
    /\ cpc = "idle"
    /\ ser_in # <<>>
    /\ ser_in' = Tail(ser_in)
    /\ killed' = TRUE
    /\ UNCHANGED <<avars, vvars, pvars, scope, held, now, ctl, shared, wpc, arrived,
                   ser_out, cmdr, window>>

\* --------------------------------------------------------- lasertag.py, main
\* with LaserController() as controller: controller.fire_at_will();
\* while True: loop(robot_state)
NextLasertag ==
    \/ Tick
    \/ LineArrives
    \/ with_enter
    \/ start_wait
    \/ fire_at_will
    \/ loop
    \/ \E exc \in Exceptions : with_exit(exc)
    \/ stand_down_join
    \/ \E w \in Workers : LaserProcess(w)

SpecLasertag == InitConstructed /\ [][NextLasertag]_vars

NextWith ==
    \/ Tick
    \/ LineArrives
    \/ with_enter
    \/ start_wait
    \/ fire_at_will
    \/ hold_fire
    \/ \E exc \in Exceptions : with_exit(exc)
    \/ stand_down_join
    \/ \E w \in Workers : LaserProcess(w)

SpecWith == InitConstructed /\ [][NextWith]_vars

\* ------------------------------------------------- blocking shots with a timeout
\* start(), then fire_at_will(), hold_fire() and fire_once(timeout) in any
\* order, with and without a timeout
NextTimeout ==
    \/ Tick
    \/ LineArrives
    \/ start
    \/ start_wait
    \/ fire_at_will
    \/ hold_fire
    \/ \E t \in Timeouts : fire_once(t)
    \/ fire_once_previous
    \/ fire_once_firing
    \/ wait_for_change
    \/ fire_once_hold
    \/ \E w \in Workers : LaserProcess(w)

SpecTimeout == InitConstructed /\ [][NextTimeout]_vars

\* every way of setting the firing flag, with and without a timeout
NextModes ==
    \/ Tick
    \/ LineArrivesEarly
    \/ start
    \/ start_wait
    \/ fire_at_will
    \/ hold_fire
    \/ \E t \in Timeouts : fire_once(t)
    \/ \E t \in Timeouts : fire_at_will_block(t)
    \/ fire_once_previous
    \/ fire_once_firing
    \/ wait_for_change
    \/ fire_once_hold
    \/ fire_at_will_firing
    \/ \E w \in Workers : LaserProcess(w)

SpecModes == InitConstructed /\ [][NextModes]_vars

\* fire_once on hosts west of UTC, on UTC and east of UTC
UtcOffsets == {-2, 0, 2}

InitOffset == \E offset \in UtcOffsets : ConstructedIn(offset) /\ held = Untracked

NextOffset ==
    \/ Tick
    \/ LineArrivesEarly
    \/ start
    \/ start_wait
    \/ \E t \in Timeouts : fire_once(t)
    \/ fire_once_previous
    \/ fire_once_firing
    \/ wait_for_change
    \/ fire_once_hold
    \/ \E w \in Workers : LaserProcess(w)

SpecOffset == InitOffset /\ [][NextOffset]_vars

\* ==================================================================== vision
\* A block is a record of signature, x, y, width, height.  Coordinates are
\* counted in units of 1/Scale pixel, so that the mean of up to MaxBlocks
\* whole-pixel values is again a whole number of units.
RECURSIVE Factorial(_)
Factorial(n) == IF n <= 1 THEN 1 ELSE n * Factorial(n - 1)

Scale == Factorial(MaxBlocks)

Max(a, b) == IF a >= b THEN a ELSE b
Min(a, b) == IF a <= b THEN a ELSE b

GenericBlock(signature, x, y, width, height) ==
    [signature |-> signature, x |-> x, y |-> y, width |-> width, height |-> height]

\* blocks as the camera reports them (whole pixels, positive extent)
Signatures == {1, 2}
PixelXs == {0, 1, 2, 20}
PixelYs == {0}
PixelWidths == {10}
PixelHeights == {9, 10}

Blocks ==
    { GenericBlock(sig, x * Scale, y * Scale, w * Scale, h * Scale) :
        sig \in Signatures, x \in PixelXs, y \in PixelYs,
        w \in PixelWidths, h \in PixelHeights }

\* thresholds as fractions <<numerator, denominator>>
SIMILARITY_THRESHOLD == <<9, 10>>
Thresholds == { SIMILARITY_THRESHOLD, <<1, 1>>, <<1, 2>>, <<0, 1>> }

xmax(b) == b.x + b.width
ymax(b) == b.y + b.height
area(b) == b.width * b.height

\* x_overlap without the max(0, ...)
x_overlap_signed(self, other) == Min(xmax(self), xmax(other)) - Max(self.x, other.x)

x_overlap(self, other) == Max(0, Min(xmax(self), xmax(other)) - Max(self.x, other.x))

y_overlap(self, other) == Max(0, Min(ymax(self), ymax(other)) - Max(self.y, other.y))

intersection_area(self, other) == x_overlap(self, other) * y_overlap(self, other)

\* intersection_ppn as a proportion of the smaller block's area
intersection_ppn_smaller(self, other) ==
    [num |-> intersection_area(self, other),
     den |-> Min(area(self), area(other))]

\* area / max(self.area, other.area), kept as a fraction
intersection_ppn(self, other) ==
    [num |-> intersection_area(self, other),
     den |-> Max(area(self), area(other))]

\* fraction >= threshold, for a positive denominator
AtLeast(ppn, threshold) == ppn.num * threshold[2] >= threshold[1] * ppn.den

\* nearly_equals that does not compare the signatures
nearly_equals_any_signature(self, other, threshold) ==
    AtLeast(intersection_ppn(self, other), threshold)

\* nearly_equals with the boundary excluded
nearly_equals_strict(self, other, threshold) ==
    /\ self.signature = other.signature
    /\ intersection_area(self, other) * threshold[2]
          > threshold[1] * Max(area(self), area(other))

nearly_equals(self, other, threshold) ==
    /\ self.signature = other.signature
    /\ AtLeast(intersection_ppn(self, other), threshold)

\* blocks_2 is <<>> for None and <<set>> for a collection.
\* itertools.combinations yields each unordered pair once, in the order of the
\* collection; Before is the order of a collection of blocks.
Key(b) == <<b.signature, b.x, b.y, b.width, b.height>>

RECURSIVE LexLess(_, _)
LexLess(s, t) ==
    /\ s # <<>>
    /\ \/ Head(s) < Head(t)
       \/ Head(s) = Head(t) /\ LexLess(Tail(s), Tail(t))

Before(a, b) == LexLess(Key(a), Key(b))

\* nearly_equal_pairs walking the product of blocks_1 with itself
nearly_equal_pairs_product(blocks_1, blocks_2, threshold) ==
    LET this_that ==
            IF blocks_2 = <<>>
            THEN blocks_1 \X blocks_1
            ELSE (blocks_1 \cup blocks_2[1]) \X (blocks_1 \cup blocks_2[1])
    IN  { p \in this_that : nearly_equals(p[1], p[2], threshold) }

\* nearly_equal_pairs keeping one pair for each first block
nearly_equal_pairs_matching(blocks_1, blocks_2, threshold) ==
    LET this_that ==
            IF blocks_2 = <<>>
            THEN { <<this, that>> \in blocks_1 \X blocks_1 : Before(this, that) }
            ELSE blocks_1 \X blocks_2[1]
        pairs == { p \in this_that : nearly_equals(p[1], p[2], threshold) }
    IN  { p \in pairs : p[2] = (CHOOSE q \in pairs : q[1] = p[1])[2] }

nearly_equal_pairs(blocks_1, blocks_2, threshold) ==
    LET this_that ==
            IF blocks_2 = <<>>
            THEN { <<this, that>> \in blocks_1 \X blocks_1 : Before(this, that) }
            ELSE blocks_1 \X blocks_2[1]
    IN  { p \in this_that : nearly_equals(p[1], p[2], threshold) }

\* the sum of one field over the blocks
RECURSIVE Sum(_, _)
Sum(blocks, field) ==
    IF blocks = {} THEN 0
    ELSE LET b == CHOOSE b \in blocks : TRUE
         IN  b[field] + Sum(blocks \ {b}, field)

\* the sum of one field over the blocks passed to merge_blocks, in order
RECURSIVE SumSeq(_, _)
SumSeq(blocks, field) ==
    IF blocks = <<>> THEN 0
    ELSE Head(blocks)[field] + SumSeq(Tail(blocks), field)

\* the first block's field in place of the mean
Mean_first(blocks, field) == blocks[1][field]

\* np.mean of the xs, ys, widths or heights of the blocks
Mean(blocks, field) == SumSeq(blocks, field) \div Len(blocks)

AssertionError == [raised |-> "AssertionError"]
KeyError == [raised |-> "KeyError"]

\* merge_blocks without its assertion
merge_blocks_unchecked(blocks) ==
    IF blocks = <<>>
    THEN GenericBlock(0, 0, 0, 0, 0)
    ELSE GenericBlock(blocks[Len(blocks)].signature,
                      Mean(blocks, "x"), Mean(blocks, "y"),
                      Mean(blocks, "width"), Mean(blocks, "height"))

\* merge_blocks(*blocks): blocks is the tuple of the arguments
merge_blocks(blocks) ==
    LET signatures == { blocks[k].signature : k \in 1..Len(blocks) } IN
    IF Cardinality(signatures) # 1
    THEN AssertionError
    ELSE GenericBlock(CHOOSE sig \in signatures : TRUE,
                      Mean(blocks, "x"), Mean(blocks, "y"),
                      Mean(blocks, "width"), Mean(blocks, "height"))

\* the members of a set in some order (iteration over a python set)
RECURSIVE SetToSeq(_)
SetToSeq(set) ==
    IF set = {} THEN <<>>
    ELSE LET b == CHOOSE b \in set : TRUE
         IN  <<b>> \o SetToSeq(set \ {b})


\* a search that stops at the neighbours of the node
plain_bfs_one_level(edges, seen) ==
    seen \cup { e[2] : e \in { d \in edges : d[1] \in seen } }
         \cup { e[1] : e \in { d \in edges : d[2] \in seen } }

\* nx.connected_components: breadth-first search from a node
RECURSIVE plain_bfs(_, _)
plain_bfs(edges, seen) ==
    LET nextlevel == seen \cup { e[2] : e \in { d \in edges : d[1] \in seen } }
                          \cup { e[1] : e \in { d \in edges : d[2] \in seen } }
    IN  IF nextlevel = seen THEN seen ELSE plain_bfs(edges, nextlevel)

connected_components(nodes, edges) == { plain_bfs(edges, {v}) : v \in nodes }

merge_similar_blocks(blocks_1, blocks_2) ==
    LET nodes == IF blocks_2 # <<>> /\ blocks_2[1] # {}
                 THEN blocks_1 \cup blocks_2[1]
                 ELSE blocks_1
        edges == nearly_equal_pairs(blocks_1, blocks_2, SIMILARITY_THRESHOLD)
        merged == { IF Cardinality(component) = 1
                    THEN CHOOSE b \in component : TRUE
                    ELSE merge_blocks(SetToSeq(component)) :
                        component \in connected_components(nodes, edges) }
    IN  IF AssertionError \in merged THEN AssertionError ELSE [blocks |-> merged]

\* Scene.merge_with
merge_with(self, other) == merge_similar_blocks(self, <<other>>)

\* Scene.diff: for this_block, that_block in ppns: set.remove raises KeyError
\* when the block is no longer in the set
RECURSIVE diff_loop(_, _, _)
diff_loop(ppns, new_blocks, disappeared_blocks) ==
    IF ppns = {}
    THEN [new_blocks |-> new_blocks, disappeared_blocks |-> disappeared_blocks]
    ELSE LET pair == CHOOSE p \in ppns : TRUE IN
         IF pair[1] \notin disappeared_blocks \/ pair[2] \notin new_blocks
         THEN KeyError
         ELSE diff_loop(ppns \ {pair}, new_blocks \ {pair[2]},
                        disappeared_blocks \ {pair[1]})

diff(self, other) ==
    diff_loop(nearly_equal_pairs(self, <<other>>, SIMILARITY_THRESHOLD),
              other, self)

\* the sets of at most k blocks
RECURSIVE Scenes(_)
Scenes(k) ==
    IF k <= 0 THEN {{}}
    ELSE LET smaller == Scenes(k - 1) IN
         smaller \cup { blocks \cup {b} : blocks \in smaller, b \in Blocks }

\* two scenes of at most MaxBlocks blocks together
InitVision ==
    /\ LaserInit
    /\ scene_1 \in Scenes(MaxBlocks)
    /\ scene_2 \in Scenes(MaxBlocks - Cardinality(scene_1))
    /\ vop = None
    /\ vargs = <<>>
    /\ vout = None

call_nearly_equals ==
    /\ vop = None
    /\ \E self \in scene_1 \cup scene_2, other \in scene_1 \cup scene_2,
          threshold \in Thresholds :
          /\ vargs' = <<self, other, threshold>>
          /\ vout' = nearly_equals(self, other, threshold)
    /\ vop' = "nearly_equals"
    /\ UNCHANGED <<mvars, avars, lvars, scene_1, scene_2>>

call_merge_similar_blocks ==
    /\ vop = None
    /\ \E blocks_2 \in {<<>>, <<scene_2>>} :
          /\ vargs' = <<scene_1, blocks_2>>
          /\ vout' = merge_similar_blocks(scene_1, blocks_2)
    /\ vop' = "merge_similar_blocks"
    /\ UNCHANGED <<mvars, avars, lvars, scene_1, scene_2>>

call_merge_with ==
    /\ vop = None
    /\ vargs' = <<scene_1, scene_2>>
    /\ vout' = merge_with(scene_1, scene_2)
    /\ vop' = "merge_with"
    /\ UNCHANGED <<mvars, avars, lvars, scene_1, scene_2>>

\* diff removing from self.blocks itself instead of a copy
call_diff_in_place ==
    /\ vop = None
    /\ \E other \in {scene_1, scene_2} :
          /\ vargs' = <<scene_1, other>>
          /\ vout' = diff(scene_1, other)
    /\ vop' = "diff"
    /\ scene_1' = IF vout' = KeyError THEN scene_1 ELSE vout'.disappeared_blocks
    /\ UNCHANGED <<mvars, avars, lvars, scene_2>>

call_diff ==
    /\ vop = None
    /\ \E other \in {scene_1, scene_2} :
          /\ vargs' = <<scene_1, other>>
          /\ vout' = diff(scene_1, other)
    /\ vop' = "diff"
    /\ UNCHANGED <<mvars, avars, lvars, scene_1, scene_2>>

NextVision ==
    \/ call_nearly_equals
    \/ call_merge_similar_blocks
    \/ call_merge_with
    \/ call_diff

SpecVision == InitVision /\ [][NextVision]_vars

\* Blocks on a half-unit grid: a length of 1.0 is 2 * Scale, and 0.5 is Scale
Rects ==
    { GenericBlock(sig, x * Scale, y * Scale, w * Scale, h * Scale) :
        sig \in Signatures, x \in 0..2, y \in 0..2, w \in 1..2, h \in 1..2 }

\* tuples of at most k arguments taken from the blocks
Arguments(blocks, k) == UNION { [1..n -> blocks] : n \in 0..k }

InitGeometry ==
    /\ LaserInit
    /\ \E a \in Rects, b \in Rects : scene_1 = {a} /\ scene_2 = {b}
    /\ vop = None
    /\ vargs = <<>>
    /\ vout = None

call_intersection_area ==
    /\ vop = None
    /\ \E self \in scene_1 \cup scene_2, other \in scene_1 \cup scene_2 :
          /\ vargs' = <<self, other>>
          /\ vout' = intersection_area(self, other)
    /\ vop' = "intersection_area"
    /\ UNCHANGED <<mvars, avars, lvars, scene_1, scene_2>>

call_intersection_ppn ==
    /\ vop = None
    /\ \E self \in scene_1 \cup scene_2, other \in scene_1 \cup scene_2 :
          /\ vargs' = <<self, other>>
          /\ vout' = intersection_ppn(self, other)
    /\ vop' = "intersection_ppn"
    /\ UNCHANGED <<mvars, avars, lvars, scene_1, scene_2>>

call_merge_blocks ==
    /\ vop = None
    /\ \E blocks \in Arguments(scene_1 \cup scene_2, MaxBlocks) :
          /\ vargs' = blocks
          /\ vout' = merge_blocks(blocks)
    /\ vop' = "merge_blocks"
    /\ UNCHANGED <<mvars, avars, lvars, scene_1, scene_2>>

NextGeometry ==
    \/ call_intersection_area
    \/ call_intersection_ppn
    \/ call_merge_blocks

SpecGeometry == InitGeometry /\ [][NextGeometry]_vars

\* ------------------------------------------------- timestamps in shared memory
\* year, month, day, hour, minute, second, microsecond of three instants of
\* utcnow() around the turn of an hour
Stamps ==
    {<<2017, 6, 1, 10, 59, 59, 999999>>,
     <<2017, 6, 1, 11, 0, 0, 0>>,
     <<2017, 6, 1, 11, 0, 1, 500>>}

NumFields == Len(EPOCH_TUPLE)

\* a < b for two datetimes
Earlier(a, b) ==
    \E i \in 1..NumFields :
        /\ a[i] < b[i]
        /\ \A j \in 1..(i - 1) : a[j] = b[j]

\* self.interface.last_fired = datetime.datetime.utcnow(): the worker enters
\* datetime_to_array with the present time, which is later than what it
\* stored before
datetime_to_array(new_value) ==
    /\ apc["worker"] = "idle"
    /\ \A old \in stored : Earlier(old, new_value)
    /\ apc' = [apc EXCEPT !["worker"] = "to_acquire"]
    /\ timestamp' = new_value
    /\ UNCHANGED <<mvars, lvars, vvars, array, lock, written, fields, dt, stored>>

\* array.acquire()
datetime_to_array_acquire ==
    /\ apc["worker"] = "to_acquire"
    /\ lock = None
    /\ lock' = "worker"
    /\ apc' = [apc EXCEPT !["worker"] = "to_array"]
    /\ written' = 0
    /\ UNCHANGED <<mvars, lvars, vvars, array, timestamp, fields, dt, stored>>

\* array[0] = timestamp.year ... array[6] = timestamp.microsecond, one at a time
datetime_to_array_set ==
    /\ apc["worker"] = "to_array"
    /\ written < NumFields
    /\ array' = [array EXCEPT ![written + 1] = timestamp[written + 1]]
    /\ written' = written + 1
    /\ UNCHANGED <<mvars, lvars, vvars, lock, apc, timestamp, fields, dt, stored>>

\* array.release()
datetime_to_array_release ==
    /\ apc["worker"] = "to_array"
    /\ written = NumFields
    /\ lock' = None
    /\ apc' = [apc EXCEPT !["worker"] = "idle"]
    /\ stored' = stored \cup {timestamp}
    /\ timestamp' = <<>>
    /\ UNCHANGED <<mvars, lvars, vvars, array, written, fields, dt>>

\* a getter of last_fired / last_hit enters array_to_datetime
array_to_datetime(p) ==
    /\ apc[p] = "idle"
    /\ apc' = [apc EXCEPT ![p] = "from_acquire"]
    /\ UNCHANGED <<mvars, lvars, vvars, array, lock, timestamp, written, fields, dt, stored>>

\* an array_to_datetime that goes on without the lock
array_to_datetime_unlocked(p) ==
    /\ apc[p] = "from_acquire"
    /\ apc' = [apc EXCEPT ![p] = "from_array"]
    /\ fields' = [fields EXCEPT ![p] = <<>>]
    /\ UNCHANGED <<mvars, lvars, vvars, array, lock, timestamp, written, dt, stored>>

\* array.acquire()
array_to_datetime_acquire(p) ==
    /\ apc[p] = "from_acquire"
    /\ lock = None
    /\ lock' = p
    /\ apc' = [apc EXCEPT ![p] = "from_array"]
    /\ fields' = [fields EXCEPT ![p] = <<>>]
    /\ UNCHANGED <<mvars, lvars, vvars, array, timestamp, written, dt, stored>>

\* datetime.datetime(*array): the items of the array are fetched one at a time
array_to_datetime_get(p) ==
    /\ apc[p] = "from_array"
    /\ Len(fields[p]) < NumFields
    /\ fields' = [fields EXCEPT ![p] = Append(@, array[Len(@) + 1])]
    /\ UNCHANGED <<mvars, lvars, vvars, array, lock, apc, timestamp, written, dt, stored>>

\* dt = datetime.datetime(*array); array.release(); return dt
array_to_datetime_release(p) ==
    /\ apc[p] = "from_array"
    /\ Len(fields[p]) = NumFields
    /\ dt' = [dt EXCEPT ![p] = fields[p]]
    /\ fields' = [fields EXCEPT ![p] = <<>>]
    /\ lock' = None
    /\ apc' = [apc EXCEPT ![p] = "idle"]
    /\ UNCHANGED <<mvars, lvars, vvars, array, timestamp, written, stored>>

\* the worker stores timestamps while it and the commander read them
NextArray ==
    \/ \E new_value \in Stamps : datetime_to_array(new_value)
    \/ datetime_to_array_acquire
    \/ datetime_to_array_set
    \/ datetime_to_array_release
    \/ \E p \in Sides :
          \/ array_to_datetime(p)
          \/ array_to_datetime_acquire(p)
          \/ array_to_datetime_get(p)
          \/ array_to_datetime_release(p)

SpecArray == Init /\ [][NextArray]_vars

\* ==================================================================== claims
FireWritten(w) == wpc[w] = "fire" /\ wpc'[w] = "fired"

\* C1: a worker's FIRE command that is not its first is written at least the
\* cooldown after the last_fired timestamp recorded for its previous FIRE
\* command, and that timestamp is not earlier than the previous command.
C1_CooldownBetweenShots ==
    [][\A w \in Workers :
          FireWritten(w) /\ ser_out[w] # Never =>
              /\ ser_out[w] <= last_fired[w]
              /\ last_fired[w] + LASER_COOLDOWN <= now
              /\ ser_out[w] + LASER_COOLDOWN <= ser_out'[w]]_vars

\* a worker has written its second FIRE command
C1_Witness ==
    \E w \in Workers :
        /\ wpc[w] = "fired"
        /\ last_fired[w] # EPOCH
        /\ ser_out[w] >= last_fired[w] + LASER_COOLDOWN

\* C2: once a worker has recorded a hit, it writes no FIRE command earlier
\* than last_hit + recovery.
C2_NoFireWhileDisabled ==
    [][\A w \in Workers :
          FireWritten(w) /\ last_hit[w] # EPOCH =>
              last_hit[w] + RECOVERY <= now]_vars

\* a worker was hit, and has fired again after the recovery
C2_Witness ==
    \E w \in Workers :
        /\ last_hit[w] # EPOCH
        /\ ser_out[w] >= last_hit[w] + RECOVERY

\* C3: at most one LaserProcess is alive at any time.
C3_OneLiveWorker == Cardinality({ w \in Workers : is_alive(w) }) <= 1

\* C4: a fire_once() called while firing is false and returning True has
\* caused exactly one FIRE command by the commander's next request (and never
\* more than one before it).
C4_ExactlyOneShot ==
    /\ window.closed \in {-1, 1}
    /\ window.open /\ ~window.firing0 /\ result = PyTrue => window.shots <= 1

\* C5: a fire_once(timeout=None) called while the laser is cooling or
\* disabled keeps its request up while it waits, and once cooldown and
\* recovery have cleared and no hit is pending or to come, the worker fires
\* and the call returns True.
NoHitToCome ==
    /\ arrived = MaxLines
    /\ \A k \in 1..Len(ser_in) : rstrip(ser_in[k]) # HIT
    /\ \A w \in Workers : wpc[w] # "hit"

C5_Waiting ==
    /\ cpc = "wait_for_change"
    /\ timeout = NoTimeout
    /\ window.blocked0
    /\ wpc[gen] \notin {"initial", "setup", "exited"}

C5_DeferredNotDropped ==
    /\ [](C5_Waiting => firing[gen])
    /\ (C5_Waiting /\ ~is_cooling(gen) /\ ~is_disabled(gen) /\ NoHitToCome)
          ~> (cpc = "fo_hold" /\ result = PyTrue)

\* a call made while disabled by a hit has returned True after the recovery
C5_Witness ==
    /\ cpc = "fo_hold"
    /\ result = PyTrue
    /\ window.blocked0
    /\ window.shots = 1
    /\ last_hit[gen] # EPOCH
    /\ ser_out[gen] >= last_hit[gen] + RECOVERY

C7_Nodes == vargs[1] \cup (IF vargs[2] = <<>> THEN {} ELSE vargs[2][1])

C7_Edge(a, b) ==
    /\ nearly_equals(a, b, SIMILARITY_THRESHOLD)
    /\ IF vargs[2] = <<>>
       THEN a # b
       ELSE \/ a \in vargs[1] /\ b \in vargs[2][1]
            \/ b \in vargs[1] /\ a \in vargs[2][1]

C7_Path(a, b) ==
    \E n \in 1..Cardinality(C7_Nodes) :
        \E p \in [1..n -> C7_Nodes] :
            /\ p[1] = a
            /\ p[n] = b
            /\ \A k \in 1..(n - 1) : C7_Edge(p[k], p[k + 1])

C7_Component(a) == { b \in C7_Nodes : C7_Path(a, b) }

C7_Merged(component) ==
    IF Cardinality(component) = 1
    THEN CHOOSE b \in component : TRUE
    ELSE LET n == Cardinality(component)
             one == CHOOSE b \in component : TRUE
         IN  [signature |-> one.signature,
              x |-> Sum(component, "x") \div n,
              y |-> Sum(component, "y") \div n,
              width |-> Sum(component, "width") \div n,
              height |-> Sum(component, "height") \div n]

\* C7: merge_similar_blocks returns exactly one block per connected component
\* of the near-equality graph: the block itself for a component of one, the
\* merge of all its members otherwise.
C7_OneBlockPerComponent ==
    vop = "merge_similar_blocks" =>
        LET components == { C7_Component(a) : a \in C7_Nodes } IN
        /\ vout = [blocks |-> { C7_Merged(c) : c \in components }]
        /\ Cardinality(vout.blocks) = Cardinality(components)

\* a chain a ~ b ~ c whose ends are not near-equal came out as one block
C7_Witness ==
    /\ vop = "merge_similar_blocks"
    /\ vargs[2] = <<>>
    /\ Cardinality(vargs[1]) = 3
    /\ \E a \in vargs[1], b \in vargs[1], c \in vargs[1] :
          /\ nearly_equals(a, b, SIMILARITY_THRESHOLD)
          /\ nearly_equals(b, c, SIMILARITY_THRESHOLD)
          /\ ~nearly_equals(a, c, SIMILARITY_THRESHOLD)
    /\ Cardinality(vout.blocks) = 1

C8_Unmatched(blocks, others) ==
    { b \in blocks :
        \A o \in others : ~nearly_equals(b, o, SIMILARITY_THRESHOLD) }

\* C8: Scene.diff(a, b) returns the blocks of b not near-equal to any block
\* of a as added, and the blocks of a not near-equal to any block of b as
\* disappeared.
C8_DiffExact ==
    vop = "diff" =>
        vout = [new_blocks |-> C8_Unmatched(vargs[2], vargs[1]),
                disappeared_blocks |-> C8_Unmatched(vargs[1], vargs[2])]

C9_Matches(b, others) ==
    { o \in others : nearly_equals(b, o, SIMILARITY_THRESHOLD) }

\* C9: when a block of one scene is near-equal to two or more blocks of the
\* other, Scene.diff completes without an error and none of the blocks of
\* those pairs is in the sets it returns.
C9_MultipleMatches ==
    vop = "diff" =>
        \A b \in vargs[1] :
            Cardinality(C9_Matches(b, vargs[2])) >= 2 =>
                /\ DOMAIN vout = {"new_blocks", "disappeared_blocks"}
                /\ b \notin vout.disappeared_blocks
                /\ C9_Matches(b, vargs[2]) \cap vout.new_blocks = {}

\* C10: a.diff(a) returns an empty added set and an empty disappeared set.
C10_DiffSelfEmpty ==
    vop = "diff" /\ vargs[1] = vargs[2] =>
        /\ DOMAIN vout = {"new_blocks", "disappeared_blocks"}
        /\ vout.new_blocks = {}
        /\ vout.disappeared_blocks = {}

\* C11: fire_once returns True only when last_fired differs from the value it
\* read at the start of the call, and without a timeout it returns nothing
\* but True.
C11_TrueOnlyAfterChange ==
    cpc = "fo_hold" =>
        /\ result \in {PyTrue, PyFalse}
        /\ result = PyTrue => last_fired[gen] # previous_fire
        /\ timeout = NoTimeout => result = PyTrue

\* a call with a timeout has returned True
C11_Witness ==
    /\ cpc = "fo_hold"
    /\ timeout # NoTimeout
    /\ result = PyTrue
    /\ last_fired[gen] # previous_fire

\* C12: a timeout of fire_once is the return value False and no exception,
\* and when fire_once returns False the worker has written no FIRE command
\* since the call began.
C12_FalseMeansNoShot ==
    cpc = "fo_hold" /\ result = PyFalse =>
        /\ raised = None
        /\ window.shots = 0

\* the controller is between requests with the flag up and its worker running
C13_Continuous ==
    /\ cpc = "idle"
    /\ firing[gen]
    /\ wpc[gen] \notin {"initial", "setup", "exited"}
    /\ ~stood_down[gen]

\* C13: fire_at_will() without block returns None at once, without waiting
\* for the worker, and leaves firing true; from then on, until the commander's
\* next request, whenever the laser is neither cooling nor disabled and no hit
\* is pending or to come, the worker fires again.
C13_FireAtWill ==
    /\ [][fire_at_will =>
            /\ result' = None
            /\ firing'[gen]
            /\ cpc' = "idle"
            /\ UNCHANGED <<now, wpc, ser_out, last_fired>>]_vars
    /\ (C13_Continuous /\ ~is_cooling(gen) /\ ~is_disabled(gen) /\ NoHitToCome)
          ~> (is_cooling(gen) \/ ~C13_Continuous)

\* left to fire at will, the worker has written a FIRE command a cooldown
\* after the shot before
C13_Witness ==
    /\ C13_Continuous
    /\ result = None
    /\ ~window.open
    /\ wpc[gen] = "fired"
    /\ last_fired[gen] # EPOCH
    /\ ser_out[gen] >= last_fired[gen] + LASER_COOLDOWN

\* C14: hold_fire() clears the flag and leaves the worker process as it is;
\* after it has returned the worker writes at most one further FIRE command
\* for as long as the flag stays down; and once the flag is raised again,
\* the same worker, found at the top of its loop
\* with the laser neither cooling nor disabled and no hit pending or to come,
\* fires again unless the commander takes the flag down first.
C14_HoldFire ==
    /\ [][hold_fire => ~firing'[gen] /\ UNCHANGED <<wpc, stood_down>>]_vars
    /\ [](held <= 1)
    /\ (/\ held = Resumed
        /\ firing[gen]
        /\ wpc[gen] \in {"loop", "firing"}
        /\ ~stood_down[gen]
        /\ ~is_cooling(gen) /\ ~is_disabled(gen) /\ NoHitToCome)
          ~> (is_cooling(gen) \/ held # Resumed \/ ~firing[gen])

\* after hold_fire() returned, the worker has written the one FIRE command
\* whose test of the flag preceded the clear, and is back at that test
C14_Witness ==
    /\ held = 1
    /\ cpc = "idle"
    /\ ~firing[gen]
    /\ wpc[gen] = "firing"

\* C15: stand_down() sets stood_down; it returns normally only when the
\* worker process has ended; called on a started worker it does return, with
\* the worker ended; and a worker that has ended writes no FIRE command.
C15_StandDown ==
    /\ [][stand_down => stood_down'[gen]]_vars
    /\ [][cpc = "join" /\ cpc' = "idle" /\ raised' = None =>
            wpc[gen] = "exited"]_vars
    /\ [][\A w \in Workers :
            wpc[w] = "exited" =>
                wpc'[w] = "exited" /\ ser_out'[w] = ser_out[w]]_vars
    /\ (cpc = "join" /\ wpc[gen] # "initial")
          ~> (cpc = "idle" /\ raised = None /\ wpc[gen] = "exited")

\* stand_down() has returned on a worker that had fired
C15_Witness ==
    /\ cpc = "idle"
    /\ raised = None
    /\ stood_down[gen]
    /\ wpc[gen] = "exited"
    /\ ser_out[gen] # Never

\* C16: inside the block of `with controller:` the worker is alive, and when
\* the with statement is over, whether the block ended normally or raised,
\* stand_down has been executed and the worker is not alive; an exception
\* raised in the block is still raised after the with statement.
C16_WithStatement ==
    /\ [](scope = "body" => is_alive(gen) /\ ~stood_down[gen])
    /\ [](scope = "exit" => stood_down[gen])
    /\ [][scope # "none" /\ scope' = "none" =>
            /\ ~is_alive(gen)'
            /\ stood_down'[gen]
            /\ raised' = raised]_vars

\* a block that raised has been left with the worker stood down
C16_Witness ==
    /\ scope = "none"
    /\ cpc = "idle"
    /\ raised = "Exception"
    /\ wpc[gen] = "exited"
    /\ ser_out[gen] # Never

\* C17: start() returns only when its worker has opened the serial device
\* and set stood_down to false, and a worker that has not yet done so has
\* written no FIRE command, whatever the flag says.
C17_Readiness ==
    /\ [][cpc = "start_wait" /\ cpc' = "idle" =>
            ~stood_down[gen] /\ wpc[gen] \notin {"initial", "setup", "retry"}]_vars
    /\ [](\A w \in Workers :
            wpc[w] \in {"initial", "setup", "retry"} =>
                stood_down[w] /\ ser_out[w] = Never)

\* the flag was raised before start(); start() has not returned yet and the
\* worker, ready, has fired
C17_Witness ==
    /\ cpc = "start_wait"
    /\ firing[gen]
    /\ ~stood_down[gen]
    /\ ser_out[gen] # Never

\* C18: a serial device that cannot be opened is no error: from its attempt
\* the worker goes on to sleep and try again, or to the loop when the open
\* succeeded, and never ends; while it is still trying stood_down stays true
\* and the commander stays in start(), which raises nothing.
C18_SerialRetry ==
    /\ [][\A w \in Workers :
            wpc[w] \in {"setup", "retry"} =>
                wpc'[w] \in {"setup", "retry", "loop"}]_vars
    /\ [](\A w \in Workers : wpc[w] \in {"setup", "retry"} => stood_down[w])
    /\ [](wpc[gen] \in {"setup", "retry"} => cpc = "start_wait")
    /\ [](cpc = "start_wait" => raised = None)
    /\ [][cpc = "start_wait" /\ cpc' = "idle" =>
            raised' = None /\ wpc[gen] \notin {"setup", "retry"}]_vars

\* the device could not be opened: the worker sleeps before it tries again,
\* and start() is still waiting
C18_Witness ==
    /\ cpc = "start_wait"
    /\ wpc[gen] = "retry"
    /\ stood_down[gen]
    /\ raised = None

\* C19 as stated: every step that changes firing or stood_down is a step of
\* the commander, and every step that changes last_fired or last_hit is a
\* step of a worker.
C19_SingleWriters ==
    [][/\ (firing' # firing \/ stood_down' # stood_down) => Commander
       /\ (last_fired' # last_fired \/ last_hit' # last_hit) =>
             \E w \in Workers : LaserProcess(w)]_vars

\* C19, amended: last_fired and last_hit are written by the worker only and
\* firing by the commander only; stood_down is written by the commander, and
\* by the worker in one place, _setup_serial, which sets it from true to false
\* while the commander waits in start().
C19_Writers ==
    [][/\ firing' # firing => Commander
       /\ stood_down' # stood_down =>
             \/ Commander
             \/ /\ setup_serial(gen)
                /\ cpc = "start_wait"
                /\ stood_down[gen] /\ ~stood_down'[gen]
       /\ (last_fired' # last_fired \/ last_hit' # last_hit) =>
             \E w \in Workers : LaserProcess(w)]_vars

\* the worker has set stood_down to false and start() has not returned yet
C19_Witness ==
    /\ cpc = "start_wait"
    /\ wpc[gen] = "loop"
    /\ ~stood_down[gen]
    /\ ser_out[gen] = Never

\* C20: every timestamp that a read of last_fired or last_hit returns, on
\* either side, is the initial value or a value that one write stored in
\* full, however the reads interleave with the field-by-field writes.
C20_NoTornRead ==
    \A p \in Sides : dt[p] # <<>> => dt[p] \in stored \cup {EPOCH_TUPLE}

\* the commander has read a stored timestamp and waits for the lock to read
\* again while the array holds fields of two different writes
C20_Witness ==
    /\ dt["commander"] \in Stamps
    /\ apc["commander"] = "from_acquire"
    /\ lock = "worker"
    /\ array \notin stored \cup {EPOCH_TUPLE, timestamp}

\* C21: last_fired and last_hit never decrease: with a clock that does not go
\* back, every step leaves each of the two fields of every interface at its
\* value or at a later one.
C21_NeverRewound ==
    [][(now' >= now) =>
         \A i \in Workers : /\ last_fired'[i] >= last_fired[i]
                            /\ last_hit'[i] >= last_hit[i]]_vars

\* fire_once read a shot recorded earlier and has seen the worker overwrite
\* it with a later one, a hit having been recorded as well
C21_Witness ==
    /\ cpc = "fo_hold"
    /\ result = PyTrue
    /\ previous_fire > EPOCH
    /\ last_hit[gen] >= previous_fire
    /\ last_fired[gen] > previous_fire

\* C22: while the worker of a controller runs, only a worker takes a line off
\* the laser's serial channel or writes to it: every step that shortens the
\* channel's input is a readline of a worker, every step that changes what
\* was written is a worker's write, and the main loop records no line.
C22_WorkerOwnsSerial ==
    /\ [][Len(ser_in') < Len(ser_in) => \E w \in Workers : check_hit_readline(w)]_vars
    /\ [][ser_out' # ser_out => \E w \in Workers : fire_write(w)]_vars
    /\ [](~killed)

\* C23: when stand_down() returns after the worker has ended, the class-level
\* singleton reference of LaserController is cleared.
C23_SingletonCleared ==
    [][stand_down_join /\ wpc[gen] = "exited" => ~instance']_vars

\* C24: fire_multiple(n, timeout_per_shot) calls fire_once n times, one after
\* the other, and returns the n results in the order of the calls: while it
\* runs, the results so far and the calls still to make add up to n; each
\* fire_once that ends, with True or with False, appends its result and is
\* followed by the next call or, after the n-th, by the return; and what is
\* returned is a list of n booleans.
C24_FireMultiple ==
    /\ [](call = "fire_multiple" =>
            /\ shots_left >= 1
            /\ Len(results) + shots_left = shots)
    /\ [](cpc = "idle" =>
            /\ Len(results) = shots
            /\ \A k \in 1..Len(results) : results[k] \in {PyTrue, PyFalse})
    /\ [][fire_once_hold /\ call = "fire_multiple" =>
            /\ results' = Append(results, result)
            /\ IF shots_left > 1
               THEN cpc' = "fo_previous" /\ shots_left' = shots_left - 1
               ELSE cpc' = "idle"]_vars

\* fire_multiple(2, 1) has returned [False, True]: the shot that timed out
\* was followed by the second call
C24_Witness ==
    /\ cpc = "idle"
    /\ shots = 2
    /\ results = <<PyFalse, PyTrue>>
\* C25: intersection_area(a, b) equals
\* max(0, min(a.xmax, b.xmax) - max(a.x, b.x)) * max(0, min(a.ymax, b.ymax) - max(a.y, b.y)),
\* which is the area of the grid cells lying in both rectangles; it is the
\* same with the arguments swapped, and it is 0 when the rectangles are
\* disjoint on either axis or only touch along an edge.
HalfCells(b) ==
    { <<i, j>> \in (0..3) \X (0..3) :
        /\ b.x <= i * Scale /\ (i + 1) * Scale <= xmax(b)
        /\ b.y <= j * Scale /\ (j + 1) * Scale <= ymax(b) }

Apart(a, b) ==
    \/ xmax(a) <= b.x \/ xmax(b) <= a.x
    \/ ymax(a) <= b.y \/ ymax(b) <= a.y

C25_IntersectionArea ==
    vop = "intersection_area" =>
        LET a == vargs[1]
            b == vargs[2]
            xlow == IF a.x >= b.x THEN a.x ELSE b.x
            xhigh == IF xmax(a) <= xmax(b) THEN xmax(a) ELSE xmax(b)
            ylow == IF a.y >= b.y THEN a.y ELSE b.y
            yhigh == IF ymax(a) <= ymax(b) THEN ymax(a) ELSE ymax(b)
        IN  /\ vout = (IF xhigh - xlow > 0 THEN xhigh - xlow ELSE 0)
                     * (IF yhigh - ylow > 0 THEN yhigh - ylow ELSE 0)
            /\ vout = Cardinality(HalfCells(a) \cap HalfCells(b)) * Scale * Scale
            /\ vout = intersection_area(b, a)
            /\ Apart(a, b) => vout = 0

\* two different blocks that overlap in part, called in either order
C25_Witness ==
    /\ vop = "intersection_area"
    /\ vargs[1].x < vargs[2].x
    /\ vargs[1].y > vargs[2].y
    /\ vout = Scale * Scale
    /\ area(vargs[1]) = 4 * Scale * Scale

\* C26: intersection_ppn(a, b) is intersection_area(a, b) divided by the
\* larger of the two areas, not by the area of the union: it is the same with
\* the arguments swapped, lies between 0 and 1, is 1/2 for A = (0, 0, 1, 1)
\* and B = (0.5, 0, 1, 1), and for a block lying inside the other is the
\* smaller area over the larger.
Within(a, b) ==
    /\ b.x <= a.x /\ xmax(a) <= xmax(b)
    /\ b.y <= a.y /\ ymax(a) <= ymax(b)

C26_IntersectionPpn ==
    vop = "intersection_ppn" =>
        LET a == vargs[1]
            b == vargs[2]
            larger == IF area(a) >= area(b) THEN area(a) ELSE area(b)
            union == area(a) + area(b) - intersection_area(a, b)
        IN  /\ vout.num = intersection_area(a, b)
            /\ vout.den = larger
            /\ vout = intersection_ppn(b, a)
            /\ 0 <= vout.num /\ vout.num <= vout.den /\ vout.den > 0
            /\ (/\ a = GenericBlock(1, 0, 0, 2 * Scale, 2 * Scale)
                /\ b = GenericBlock(1, Scale, 0, 2 * Scale, 2 * Scale))
                  => /\ 2 * vout.num = vout.den
                     /\ 3 * vout.num = union
            /\ Within(a, b) => vout.num = area(a) /\ vout.den = area(b)

\* A and B of the example
C26_Witness ==
    /\ vop = "intersection_ppn"
    /\ vargs = << GenericBlock(1, 0, 0, 2 * Scale, 2 * Scale),
                  GenericBlock(1, Scale, 0, 2 * Scale, 2 * Scale) >>
    /\ vout = [num |-> 2 * Scale * Scale, den |-> 4 * Scale * Scale]

\* C27: merge_blocks of one or more blocks that share a signature returns a
\* block with that signature whose x, y, width and height are the arithmetic
\* means of the arguments' fields; merging copies of one block returns a
\* block equal to it.
OneSignature(blocks) ==
    /\ blocks # <<>>
    /\ \A k \in 1..Len(blocks) : blocks[k].signature = blocks[1].signature

C27_MergeIsMean ==
    (vop = "merge_blocks" /\ OneSignature(vargs)) =>
        LET a == CHOOSE a \in scene_1 : TRUE
            b == CHOOSE b \in scene_2 : TRUE
            n == Len(vargs)
            na == Cardinality({ k \in 1..n : vargs[k] = a })
            nb == n - na
        IN  /\ vout # AssertionError
            /\ vout.signature = vargs[1].signature
            /\ n * vout.x = na * a.x + nb * b.x
            /\ n * vout.y = na * a.y + nb * b.y
            /\ n * vout.width = na * a.width + nb * b.width
            /\ n * vout.height = na * a.height + nb * b.height
            /\ (\A k \in 1..n : vargs[k] = vargs[1]) => vout = vargs[1]

\* two copies of one block and a different block of the same signature
C27_Witness ==
    /\ vop = "merge_blocks"
    /\ Len(vargs) = 3
    /\ vargs[1] = vargs[2]
    /\ vargs[1].x = 0 /\ vargs[3].x = Scale
    /\ vargs[1].width = 2 * Scale /\ vargs[3].width = Scale
    /\ vout \notin {vargs[1], vargs[3]}
    /\ 3 * vout.x = Scale
    /\ 3 * vout.width = 5 * Scale

\* C28: merge_blocks called with blocks of more than one signature, or with
\* no block at all, fails with an AssertionError; it never returns a block
\* in that case.
C28_MergeAsserts ==
    (vop = "merge_blocks" /\ ~OneSignature(vargs)) => vout = AssertionError

\* a call with blocks of two signatures
C28_Witness ==
    /\ vop = "merge_blocks"
    /\ Len(vargs) = 2
    /\ vargs[1].signature # vargs[2].signature
    /\ vout = AssertionError

\* C29: in the set of pairs that Scene.diff computes,
\* nearly_equal_pairs(a.blocks, b.blocks), each block occurs in at most one
\* pair.
C29_AtMostOnePair ==
    vop = "diff" =>
        LET ppns == nearly_equal_pairs(vargs[1], <<vargs[2]>>, SIMILARITY_THRESHOLD)
        IN  \A block \in vargs[1] \cup vargs[2] :
                Cardinality({ pair \in ppns : block \in {pair[1], pair[2]} }) <= 1

\* C29 as the code has it: the pairs that Scene.diff computes are all the
\* pairs of a block of a and a block of b that are near-equal, so a block
\* occurs in as many pairs as it has near-equal blocks in the other scene.
C29_EveryNearEqualPair ==
    vop = "diff" =>
        LET ppns == nearly_equal_pairs(vargs[1], <<vargs[2]>>, SIMILARITY_THRESHOLD)
        IN  /\ ppns \subseteq vargs[1] \X vargs[2]
            /\ \A this \in vargs[1] :
                  { pair[2] : pair \in { q \in ppns : q[1] = this } }
                      = C9_Matches(this, vargs[2])
            /\ \A that \in vargs[2] :
                  { pair[1] : pair \in { q \in ppns : q[2] = that } }
                      = C9_Matches(that, vargs[1])

\* a block of a that is near-equal to two blocks of b
C29_Witness ==
    /\ vop = "diff"
    /\ \E this \in vargs[1] :
          /\ Cardinality(C9_Matches(this, vargs[2])) = 2
          /\ this \notin vargs[2]
    /\ vout = KeyError

\* C30: merge_blocks, merge_similar_blocks, Scene.merge_with and Scene.diff
\* leave their inputs unchanged: when a call has returned or failed, each
\* input scene has the block set it had before, which is the one the call
\* was given.
C30_InputsUnchanged ==
    [][vop' # vop =>
          /\ scene_1' = scene_1
          /\ scene_2' = scene_2
          /\ vop' = "merge_similar_blocks" =>
                vargs' \in {<<scene_1', <<>>>>, <<scene_1', <<scene_2'>>>>}
          /\ vop' = "merge_with" => vargs' = <<scene_1', scene_2'>>
          /\ vop' = "diff" =>
                vargs' \in {<<scene_1', scene_1'>>, <<scene_1', scene_2'>>}]_vars

\* diff has returned a set of disappeared blocks smaller than a's block set
C30_Witness ==
    /\ vop = "diff"
    /\ vout # KeyError
    /\ vargs = <<scene_1, scene_2>>
    /\ vout.disappeared_blocks # scene_1
    /\ vout.new_blocks # scene_2

\* C31: a HIT line pending on the serial channel while the worker is in its
\* loop and not stood down is read, and last_hit recorded, whether or not
\* firing is set and whether or not the laser is cooling down: a hit that
\* arrives while the commander is holding fire is recorded on the worker's
\* next iteration.
C31_HitRecorded ==
    (/\ wpc[gen] = "loop" /\ ~stood_down[gen]
     /\ Len(ser_in) = arrived /\ ser_in # <<>>
     /\ rstrip(Head(ser_in)) = HIT)
        ~> (Len(ser_in) < arrived)

\* C32: once the commander has set stood_down, the worker leaves its loop at
\* its next check of the loop condition: no further loop body is begun, the
\* flag stays set, and the worker writes at most one FIRE command after the
\* flag was set.
C32_LeavesAtNextCheck ==
    /\ [][\A w \in Workers :
            (wpc[w] = "loop" /\ wpc'[w] # "loop" /\ stood_down[w])
                => wpc'[w] = "exited"]_vars
    /\ [][(call = "stand_down" /\ call' = call) => stood_down'[gen]]_vars
    /\ [](call = "stand_down" => held \in {0, 1})

\* the worker has ended after the one FIRE command it wrote with the flag set
C32_Witness ==
    /\ call = "stand_down"
    /\ cpc = "join"
    /\ wpc[gen] = "exited"
    /\ held = 1

\* C33: a line read from the serial channel sets last_hit if and only if it
\* is the letters HIT in upper case followed by nothing but whitespace; any
\* other line is consumed and ignored: last_hit stays as it was, the laser
\* is not disabled, the worker goes on to fire in the same iteration, and it
\* does not leave its loop.
C33_IsHit(l) ==
    /\ Len(l) >= 3
    /\ l[1] = "H" /\ l[2] = "I" /\ l[3] = "T"
    /\ \A k \in 4..Len(l) : l[k] \in Whitespace

C33_OnlyHitCounts ==
    /\ [][\A w \in Workers :
            (wpc[w] = "in_waiting" /\ wpc'[w] # wpc[w] /\ ser_in # <<>>) =>
                /\ ser_in' = Tail(ser_in)
                /\ last_hit' = last_hit
                /\ IF C33_IsHit(Head(ser_in))
                   THEN wpc'[w] = "hit"
                   ELSE wpc'[w] = "fire" /\ ~is_disabled(w)]_vars
    /\ [][\A w \in Workers :
            (wpc[w] = "hit" /\ wpc'[w] # wpc[w]) =>
                last_hit'[w] = now /\ wpc'[w] = "loop"]_vars
    /\ [][\A w \in Workers :
            (wpc[w] = "fire" /\ wpc'[w] # wpc[w]) =>
                ser_out'[w] = now /\ wpc'[w] = "fired"]_vars
    /\ [][\A w \in Workers :
            last_hit'[w] # last_hit[w] => wpc[w] = "hit"]_vars

\* the worker has fired after reading a line that was not a hit
C33_Witness ==
    /\ arrived = 1
    /\ ser_in = <<>>
    /\ wpc[gen] = "fired"
    /\ last_hit[gen] = EPOCH
    /\ ser_out[gen] = now
    /\ ~is_disabled(gen)

\* C34: the value of firing when a commander operation returns is fixed by
\* the operation: fire_once returns with it false, also when the laser was
\* firing at will before the call and when the call timed out; hold_fire
\* returns with it false; fire_at_will returns with it true, with block=False
\* and with block=True, also when the wait for the first shot timed out.
C34_FiringOnReturn ==
    [][(cpc' = "idle" /\ gen > 0) =>
          /\ (cpc = "fo_hold" /\ call = "fire_once") => ~firing'[gen]
          /\ hold_fire => ~firing'[gen]
          /\ (cpc = "faw_firing" /\ call = "fire_at_will") => firing'[gen]
          /\ fire_at_will => firing'[gen]]_vars

\* fire_at_will(block=True, timeout=1) has returned False, and the laser is
\* firing at will
C34_Witness ==
    /\ cpc = "idle"
    /\ result = PyFalse
    /\ firing[gen]
    /\ wpc[gen] \notin {"initial", "setup", "exited"}

\* C35: fire_once(timeout=t) with t > 0 returns False only when at least t
\* seconds have passed since its wait began and last_fired has not changed,
\* whatever the offset between the host's local clock and UTC; with
\* timeout=None it never returns False.
C35_FalseOnlyAfterTimeout ==
    [][(cpc = "wait_for_change" /\ result' = PyFalse) =>
          LET started == finish - timeout - utc_offset
          IN  /\ timeout # NoTimeout
              /\ now - started >= timeout
              /\ last_fired[gen] = previous_fire]_vars

\* C36: nearly_equal_pairs with one collection returns each unordered pair
\* of distinct near-equal elements once and no element paired with itself;
\* with two collections it returns exactly the near-equal cross pairs. So
\* merge_similar_blocks(A, B) does not link two blocks of A directly: two
\* near-equal blocks of A, neither near-equal to a block of B, both come out
\* unmerged.
C36_Near(x, y) ==
    /\ x.signature = y.signature
    /\ 10 * intersection_area(x, y) >= 9 * Max(area(x), area(y))

C36_PairsRight ==
    vop = "merge_similar_blocks" =>
        LET A == vargs[1]
            ppns == nearly_equal_pairs(A, vargs[2], SIMILARITY_THRESHOLD)
        IN  IF vargs[2] = <<>>
            THEN /\ \A p \in ppns :
                      p[1] \in A /\ p[2] \in A /\ p[1] # p[2] /\ C36_Near(p[1], p[2])
                 /\ \A x \in A, y \in A :
                      (x # y /\ C36_Near(x, y)) =>
                          Cardinality({<<x, y>>, <<y, x>>} \cap ppns) = 1
            ELSE LET B == vargs[2][1] IN
                 /\ ppns = { p \in A \X B : C36_Near(p[1], p[2]) }
                 /\ vout # AssertionError =>
                      \A x \in A, y \in A :
                          (/\ x # y
                           /\ \A b \in B : ~C36_Near(x, b) /\ ~C36_Near(y, b))
                              => x \in vout.blocks /\ y \in vout.blocks

\* C36: at every merge_similar_blocks call, within one collection every
\* unordered pair of its blocks is tested once, and between two collections
\* exactly the cross pairs are
C36_PairsTested == []C36_PairsRight

\* two near-equal blocks of A have come out of merge_similar_blocks(A, B)
\* as they were, next to the block of B
C36_Witness ==
    /\ vop = "merge_similar_blocks"
    /\ vargs[2] # <<>>
    /\ vargs[2][1] # {}
    /\ \E x \in vargs[1], y \in vargs[1] :
          /\ x # y /\ C36_Near(x, y)
          /\ {x, y} \cap vargs[2][1] = {}
          /\ {x, y} \subseteq vout.blocks

\* C37: last_hit is only updated while the laser is not disabled: two
\* successive values of last_hit are at least RECOVERY apart, and a HIT line
\* that arrives during a recovery window stays on the channel until the
\* window has ended, when it is read and starts a new window.
C37_HitsApart ==
    /\ [][\A w \in Workers :
            last_hit'[w] # last_hit[w] =>
                /\ last_hit'[w] - last_hit[w] >= RECOVERY
                /\ now - last_hit[w] >= RECOVERY
                /\ last_hit'[w] = now]_vars
    /\ [][Len(ser_in') < Len(ser_in) =>
            /\ ser_in' = Tail(ser_in)
            /\ \E w \in Workers :
                  /\ wpc[w] = "in_waiting"
                  /\ now - last_hit[w] >= RECOVERY
                  /\ rstrip(Head(ser_in)) = HIT => wpc'[w] = "hit"]_vars
    /\ [](\A w \in Workers : wpc[w] = "hit" => now - last_hit[w] >= RECOVERY)

\* a second hit, sent during the recovery from the first, has been recorded
\* when that recovery was over
C37_Witness ==
    /\ arrived = 2
    /\ ser_in = <<>>
    /\ last_hit[gen] >= StartTime + RECOVERY
    /\ wpc[gen] = "loop"

\* C38: every connected component that merge_similar_blocks builds holds
\* blocks of one signature, so its merge_blocks call never fails the
\* signature assertion; every output block has the signature of an input
\* block, and the output has no more blocks than the input has distinct
\* blocks.
C38_Inputs == vargs[1] \cup (IF vargs[2] = <<>> THEN {} ELSE vargs[2][1])

C38_SignaturesApart ==
    vop = "merge_similar_blocks" =>
        LET edges == nearly_equal_pairs(vargs[1], vargs[2], SIMILARITY_THRESHOLD)
        IN  /\ \A component \in connected_components(C38_Inputs, edges) :
                  \A x \in component, y \in component : x.signature = y.signature
            /\ vout # AssertionError
            /\ \A b \in vout.blocks :
                  \E i \in C38_Inputs : i.signature = b.signature
            /\ Cardinality(vout.blocks) <= Cardinality(C38_Inputs)

\* C38: at every merge_similar_blocks call, each connected component holds
\* blocks of one signature only, so the merge never fails its assertion
C38_OneSignaturePerComponent == []C38_SignaturesApart

\* blocks of two signatures in the same place have not been merged, while
\* two of one signature have
C38_Witness ==
    /\ vop = "merge_similar_blocks"
    /\ vout # AssertionError
    /\ Cardinality(vout.blocks) = 2
    /\ Cardinality(C38_Inputs) = 3
    /\ \E x \in C38_Inputs, y \in C38_Inputs :
          /\ x.signature # y.signature
          /\ intersection_area(x, y) = area(x)
          /\ area(x) = area(y)
          /\ x \in vout.blocks

\* ------------------------------------------- the pipe-based LaserCommander
\* utils/bot_logging/shooting.py: a LaserCommander sends Command values on a
\* Pipe to an AutoLaser process, which fires on them.

\* LaserCommander.start():  self._laser.start()
\* (Process.start asserts that the process was not started before)
LaserCommander_start ==
    /\ ppc = "idle"
    /\ IF laser = "initial"
       THEN laser' = "run" /\ commanded' = None
       ELSE laser' = laser /\ commanded' = "AssertionError"
    /\ UNCHANGED <<commander_stood_down, conn, laser_firing, laser_fired, sent, ppc,
                   stand_downs>>
    /\ UNCHANGED <<killed, avars, vvars, lvars>>

\* what _send_command does when the flag is left as it is
\* _send_command(command):  if self.stood_down: raise ValueError(...)
\*                          self._conn.send(command)
LaserCommander_send_command(command) ==
    IF commander_stood_down
    THEN /\ commanded' = "ValueError"
         /\ UNCHANGED <<conn, sent>>
    ELSE /\ commanded' = None
         /\ conn' = Append(conn, command)
         /\ sent' = sent + 1

\* fire_once():     self._send_command(Command.FIRE_ONCE)
\* fire_at_will():  self._send_command(Command.FIRE_AT_WILL)
\* hold_fire():     self._send_command(Command.HOLD_FIRE)
LaserCommander_command(command) ==
    /\ ppc = "idle"
    /\ sent < MaxSent
    /\ LaserCommander_send_command(command)
    /\ UNCHANGED <<commander_stood_down, laser, laser_firing, laser_fired, ppc,
                   stand_downs>>
    /\ UNCHANGED <<killed, avars, vvars, lvars>>

\* stand_down():  self._send_command(Command.STAND_DOWN)
\*                self.__stood_down = False
\*                self._laser.join()
\* (Process.join asserts that the process was started)
LaserCommander_stand_down ==
    /\ ppc = "idle"
    /\ sent < MaxSent
    /\ stand_downs' = IF stand_downs < 2 THEN stand_downs + 1 ELSE stand_downs
    /\ IF commander_stood_down
       THEN /\ commanded' = "ValueError"
            /\ UNCHANGED <<conn, sent, commander_stood_down, ppc>>
       ELSE /\ conn' = Append(conn, "STAND_DOWN")
            /\ sent' = sent + 1
            /\ commander_stood_down' = FALSE
            /\ IF laser = "initial"
               THEN commanded' = "AssertionError" /\ ppc' = ppc
               ELSE commanded' = None /\ ppc' = "join"
    /\ UNCHANGED <<laser, laser_firing, laser_fired>>
    /\ UNCHANGED <<killed, avars, vvars, lvars>>

\* stand_down():  self._laser.join() returns once run() has returned
\*                self.__instance = None
LaserCommander_join ==
    /\ ppc = "join"
    /\ laser = "exited"
    /\ ppc' = "idle"
    /\ UNCHANGED <<commander_stood_down, conn, laser, laser_firing, laser_fired, sent,
                   commanded, stand_downs>>
    /\ UNCHANGED <<killed, avars, vvars, lvars>>

\* AutoLaser._fire():  self.ser.write("FIRE\n"); time.sleep(self.timeout)
AutoLaser_fire == IF laser_fired < MaxShots THEN laser_fired + 1 ELSE laser_fired

\* AutoLaser.run():  if self.conn.poll(POLL_TIMEOUT): signal = self.conn.recv()
\* and the branch of the signal
AutoLaser_recv ==
    /\ laser = "run"
    /\ conn # <<>>
    /\ conn' = Tail(conn)
    /\ LET signal == Head(conn)
       IN  CASE signal = "FIRE_ONCE" ->
                  /\ laser_firing' = FALSE
                  /\ laser_fired' = AutoLaser_fire
                  /\ laser' = laser
            [] signal = "FIRE_AT_WILL" ->
                  /\ laser_firing' = TRUE
                  /\ laser_fired' = AutoLaser_fire
                  /\ laser' = laser
            [] signal = "HOLD_FIRE" ->
                  /\ laser_firing' = FALSE
                  /\ UNCHANGED <<laser_fired, laser>>
            [] signal = "STAND_DOWN" ->
                  /\ laser' = "exited"
                  /\ UNCHANGED <<laser_firing, laser_fired>>
    /\ UNCHANGED <<commander_stood_down, sent, ppc, commanded, stand_downs>>
    /\ UNCHANGED <<killed, avars, vvars, lvars>>

\* AutoLaser.run():  elif self.firing: self._fire()
AutoLaser_firing ==
    /\ laser = "run"
    /\ conn = <<>>
    /\ laser_firing
    /\ laser_fired' = AutoLaser_fire
    /\ UNCHANGED <<commander_stood_down, conn, laser, laser_firing, sent, ppc,
                   commanded, stand_downs>>
    /\ UNCHANGED <<killed, avars, vvars, lvars>>

NextPipe ==
    \/ LaserCommander_start
    \/ \E command \in {"FIRE_ONCE", "FIRE_AT_WILL", "HOLD_FIRE"} :
          LaserCommander_command(command)
    \/ LaserCommander_stand_down
    \/ LaserCommander_join
    \/ AutoLaser_recv
    \/ AutoLaser_firing

SpecPipe == Init /\ [][NextPipe]_vars

\* C39: once stand_down() has been called on a pipe-based LaserCommander,
\* any further command (fire_once, fire_at_will, hold_fire or a second
\* stand_down) raises ValueError and sends nothing to the worker.
C39_RaisesAfterStandDown ==
    [][(/\ stand_downs > 0
        /\ ppc = "idle"
        /\ \/ \E command \in {"FIRE_ONCE", "FIRE_AT_WILL", "HOLD_FIRE"} :
                 LaserCommander_command(command)
           \/ LaserCommander_stand_down)
       => (commanded' = "ValueError" /\ sent' = sent /\ conn' = conn)]_vars

====
